---------------------------- MODULE Spec2Model ----------------------------
(***************************************************************************)
(* Model of the pytest/Playwright harness for StaticPress2019:             *)
(*   - RoutineOperation (XPath string escaping, click_by_text),            *)
(*   - the database layer (get_db_connection, TableCleaner, FixtureLoader),*)
(*   - the pytest fixtures setup_database_fixtures and setup_wordpress,    *)
(*     _ensure_test_user_password and the script reset_password.py,        *)
(*   - the re-authentication loop of test_sets_option_and_rebuilds,        *)
(*   - PagePlugins.activate_plugin, PageStaticPress.click_rebuild and      *)
(*     PageStaticPressOptions.set_options.                                 *)
(* Python strings that the code transforms are modelled as sequences of    *)
(* one-character strings; strings the code only stores or compares are     *)
(* modelled as TLA+ strings.                                               *)
(***************************************************************************)
EXTENDS Integers, Sequences, FiniteSets, TLC

VARIABLES
    \* ---- RoutineOperation ----
    xp_pc,          \* "ready" | "escaped": position of the escape_xpath_string caller
    text,           \* argument `text`
    tag,            \* argument `tag`
    escaped,        \* value returned by escape_xpath_string(text)
    click_calls,    \* number of click_by_text calls made
    clicks          \* clicks the page received: <<selector, which element>>

xp_vars == <<xp_pc, text, tag, escaped, click_calls, clicks>>

VARIABLES
    \* ---- database layer (config.py, table_cleaner.py, fixture_loader.py) ----
    wp_options,     \* committed rows of table wp_options (what a new connection sees)
    db_pc,          \* position inside get_db_connection: "idle" | "block" | "commit"
                    \*   | "except" | "finally" | "done"
    db_op,          \* function whose with-block is running
    db_path,        \* argument fixtures_path of FixtureLoader.load
    prog,           \* statements of the with-block
    stmt_idx,       \* next statement of prog to execute
    txn,            \* rows as the open connection sees them (its transaction)
    conn_open,      \* the Connection of the block is open
    engine_live,    \* the Engine of the block is not disposed
    exc,            \* exception in flight, NoExc if none
    db_result,      \* how the last get_db_connection use ended: "returned" | "raised"
    prev_result,    \* how the use before the current one ended
    \* history of the current get_db_connection use
    before,         \* wp_options when the block was entered
    block_exc,      \* exception the with-block body raised, NoExc if it finished
    raised_exc,     \* first exception raised by the body or by commit()
    commit_calls,   \* calls of connection.commit()
    rolled_back,    \* the transaction was rolled back
    \* table wp_users (entities/wp_user.py), which exists once WordPress is installed
    wp_users,       \* committed table: [exists, rows]
    users_txn,      \* wp_users as the open connection sees it
    users_before    \* wp_users when the block was entered

db_vars == <<wp_options, db_pc, db_op, db_path, prog, stmt_idx, txn, conn_open,
             engine_live, exc, db_result, prev_result, before, block_exc,
             raised_exc, commit_calls, rolled_back, wp_users, users_txn, users_before>>

VARIABLES
    \* ---- pytest running the tests under setup_database_fixtures (conftest.py) ----
    fx_pc,          \* "fixture" | "test" | "error" | "end" | "aborted"
    fx_step,        \* number of calls setup_database_fixtures has started
    fx_calls,       \* the functions it has called, in order
    tests_run,      \* test functions pytest is done with
    prev_wrote,     \* the previous test body changed the StaticPress options
    fx_runs,        \* runs of setup_database_fixtures started so far
    tests_called,   \* test functions pytest has called
    test_result,    \* "none" | "passed" | "failed" | "not_run": the last test
    test_changed    \* option names whose rows the last test body changed

fx_vars == <<fx_pc, fx_step, fx_calls, tests_run, prev_wrote, fx_runs, tests_called,
             test_result, test_changed>>

VARIABLES
    \* ---- setup_wordpress (conftest.py lines 83-138) ----
    sw_pc,          \* position in setup_wordpress and the functions it calls
    page,           \* what the displayed page holds: [lang_labels, info_headings]
    context_open,   \* the browser context is open
    goto_ok,        \* page.goto(HOST) returned
    welcome_check,  \* result of PageWelcome.is_displayed_now: "unchecked" | "displayed" | "absent"
    sw_calls,       \* the flows setup_wordpress itself has called
    all_calls,      \* every call of the two flows: <<function, caller>>
    login_caller,   \* caller of the running _login_wordpress
    login_page,     \* after page.goto(HOST + "wp-login.php"): [url, form_visible]
    sw_exc,         \* exception in flight
    sw_runs         \* runs of setup_wordpress started so far

sw_vars == <<sw_pc, page, context_open, goto_ok, welcome_check, sw_calls, all_calls,
             login_caller, login_page, sw_exc, sw_runs>>

VARIABLES
    \* ---- re-authentication loop of test_sets_option_and_rebuilds (tests/test_all.py) ----
    lp_pc,          \* "assign" | "loop_head" | "login" | "check_admin" | "menu" | "raised"
    url,            \* page.url, as a sequence of its parts
    login_attempts, \* local variable login_attempts
    login_calls,    \* calls of PageLogin.login made by the loop
    tested_url,     \* page.url at the last evaluation of the loop condition
    loop_steps      \* steps of lines 97-111 executed so far

lp_vars == <<lp_pc, url, login_attempts, login_calls, tested_url, loop_steps>>

VARIABLES
    \* ---- PagePlugins.activate_plugin (pages/page_plugins.py) ----
    plugins,        \* the plugins page: plugin name -> "active" | "inactive" | "absent"
    plugin_clicks,  \* clicks the plugins page received: <<xpath, which element>>
    plugin_waits,   \* calls of page.wait_for_load_state("domcontentloaded")
    activations,    \* calls of activate_plugin, each <<name, links found, outcome>>
    plugins_before  \* the plugins page before the last call

pl_vars == <<plugins, plugin_clicks, plugin_waits, activations, plugins_before>>

VARIABLES
    \* ---- PageStaticPress.click_rebuild (pages/page_staticpress.py) ----
    rb_pc,          \* "idle" | "click" | "wait_end" | "wait_entry" | "returned" | "timeout"
                    \*   | "not_called"
    now,            \* minutes since the call
    wait_started,   \* value of now when the running wait_for was called
    end_visible,    \* <p id="message"><strong>End</strong> is visible
    result_list,    \* texts of the <li> elements of <ul class="result-list">
    rebuild_log     \* what click_rebuild did, in order

rb_vars == <<rb_pc, now, wait_started, end_visible, result_list, rebuild_log>>

VARIABLES
    \* ---- PageStaticPressOptions.set_options (pages/page_staticpress_options.py) ----
    so_pc,          \* "idle" | "fill" | "save" | "returned" | "raised"
    so_step,        \* number of _clear_and_type calls that have returned
    so_args,        \* the five arguments of the call, in parameter order
    inputs,         \* content of each text input of the options form
    option_log,     \* what set_options did to the page, in order
    submitted       \* the contents the form was posted with, <<>> before that

so_vars == <<so_pc, so_step, so_args, inputs, option_log, submitted>>

ui_vars == <<lp_vars, pl_vars, rb_vars, so_vars>>

vars == <<xp_vars, db_vars, fx_vars, sw_vars, ui_vars>>

not_xp_vars == <<db_vars, fx_vars, sw_vars, ui_vars>>
not_db_vars == <<xp_vars, fx_vars, sw_vars, ui_vars>>

----------------------------------------------------------------------------
(* Bounds *)
MaxLen == 3
MaxClicks == 2

\* Characters of the inputs: a letter, both quotes, whitespace (space, tab,
\* newline), a non-ASCII character (U+4E16, written "u4e16": one element of
\* a sequence is one character) and the punctuation of the concat() call.
SQ == "'"
DQ == "\""
Alphabet == {"a", SQ, DQ, " ", "\t", "\n", "u4e16", ",", ")"}

RECURSIVE StringsUpTo(_)
StringsUpTo(n) ==
    IF n = 0 THEN {<<>>}
    ELSE LET shorter == StringsUpTo(n - 1)
         IN  shorter \cup {Append(s, c) : s \in {t \in shorter : Len(t) = n - 1}, c \in Alphabet}

Texts == StringsUpTo(MaxLen)
Tags == {<<"a">>, <<"l", "i">>}

----------------------------------------------------------------------------
(* Python str.replace(old, new): left to right, non-overlapping. *)
DropFirst(s, n) == SubSeq(s, n + 1, Len(s))

RECURSIVE str_replace(_, _, _)
str_replace(s, old, new) ==
    IF Len(s) < Len(old) \/ Len(old) = 0 THEN s
    ELSE IF SubSeq(s, 1, Len(old)) = old
         THEN new \o str_replace(DropFirst(s, Len(old)), old, new)
         ELSE <<Head(s)>> \o str_replace(Tail(s), old, new)

\* The replacement text  ', "'", '  of routine_operation.py line 77.
QuoteSplit == <<SQ, ",", " ", DQ, SQ, DQ, ",", " ", SQ>>
ConcatOpen == <<"c", "o", "n", "c", "a", "t", "(", SQ>>
ConcatClose == <<SQ, ",", " ", SQ, SQ, ")">>

escape_xpath_string_noescape(t) == ConcatOpen \o t \o ConcatClose
escape_xpath_string_firstonly(t) ==
    LET i == CHOOSE k \in 1..(Len(t) + 1) :
                 /\ (k <= Len(t) => t[k] = SQ)
                 /\ \A j \in 1..(k - 1) : t[j] # SQ
    IN  IF i > Len(t) THEN ConcatOpen \o t \o ConcatClose
        ELSE ConcatOpen \o SubSeq(t, 1, i - 1) \o QuoteSplit
                 \o SubSeq(t, i + 1, Len(t)) \o ConcatClose

escape_xpath_string(t) ==
    LET splited_quotes == str_replace(t, <<SQ>>, QuoteSplit)
    IN  ConcatOpen \o splited_quotes \o ConcatClose

\* The selector of click_by_text: f"xpath=.//{tag}[contains(text(), {escaped_text})]"
SelectorOpen == <<"x", "p", "a", "t", "h", "=", ".", "/", "/">>
SelectorMid == <<"[", "c", "o", "n", "t", "a", "i", "n", "s", "(", "t", "e", "x", "t", "(", ")", ",", " ">>
SelectorClose == <<")", "]">>

click_selector(tg, t) ==
    LET escaped_text == escape_xpath_string(t)
    IN  SelectorOpen \o tg \o SelectorMid \o escaped_text \o SelectorClose

\* page.locator(selector).first.click(): one click on element 0 of the matches.
locator_click_twice(page_clicks, selector) ==
    Append(Append(page_clicks, [selector |-> selector, nth |-> "first"]),
           [selector |-> selector, nth |-> "first"])
locator_first_click(page_clicks, selector) ==
    Append(page_clicks, [selector |-> selector, nth |-> "first"])

----------------------------------------------------------------------------
(* The database: table wp_options and the statements the harness issues.  *)
(* A row is [option_name, option_value, autoload]; the unique index on    *)
(* option_name (entities/wp_option.py) is enforced by the statements, not *)
(* by the representation.                                                 *)

MaxStmts == 2

StaticUrl == "StaticPress::static url"
StaticDir == "StaticPress::static dir"
Timeout == "StaticPress::timeout"
StaticPressNames == {StaticUrl, StaticDir, Timeout}

\* Values FixtureLoader.load stores (fixture_loader.py lines 53, 69, 85).
FixtureValue(name) ==
    CASE name = StaticUrl -> "http://example.org/sub/"
      [] name = StaticDir -> "/var/www/html/wp-content/staticpress/"
      [] name = Timeout   -> "20"

\* Values the options page is given in tests/test_all.py lines 125-127.
PageValue(name) ==
    CASE name = StaticUrl -> "http://example.com/sub/"
      [] name = StaticDir -> "/tmp/static/"
      [] name = Timeout   -> "10"

Row(n, v, a) == [option_name |-> n, option_value |-> v, autoload |-> a]

Delete(n)       == [op |-> "DELETE", name |-> n, value |-> "", autoload |-> ""]
Upsert(n, v, a) == [op |-> "UPSERT", name |-> n, value |-> v, autoload |-> a]
Update(n, v)    == [op |-> "UPDATE", name |-> n, value |-> v, autoload |-> ""]
Select(n)       == [op |-> "SELECT", name |-> n, value |-> "", autoload |-> ""]
\* SELECT * FROM nonexistent_table_xyz (test_database_layer.py line 148)
SelectMissing   == [op |-> "SELECT_MISSING", name |-> "", value |-> "", autoload |-> ""]

\* DELETE FROM wp_options WHERE option_name = n
ExecDelete_all(table, n) == {}
ExecDelete(table, n) == {r \in table : r.option_name # n}

\* INSERT INTO wp_options ... ON DUPLICATE KEY UPDATE option_value, autoload
ExecUpsert_insertonly(table, n, v, a) ==
    IF \E r \in table : r.option_name = n THEN table
    ELSE table \cup {Row(n, v, a)}
ExecUpsert_append(table, n, v, a) == table \cup {Row(n, v, a)}
ExecUpsert(table, n, v, a) ==
    IF \E r \in table : r.option_name = n
    THEN {IF r.option_name = n THEN Row(n, v, a) ELSE r : r \in table}
    ELSE table \cup {Row(n, v, a)}

\* UPDATE wp_options SET option_value = v WHERE option_name = n
ExecUpdate(table, n, v) ==
    {IF r.option_name = n THEN [r EXCEPT !.option_value = v] ELSE r : r \in table}

Exec(stmt, table) ==
    CASE stmt.op = "DELETE" -> ExecDelete(table, stmt.name)
      [] stmt.op = "UPSERT" -> ExecUpsert(table, stmt.name, stmt.value, stmt.autoload)
      [] stmt.op = "UPDATE" -> ExecUpdate(table, stmt.name, stmt.value)
      [] OTHER -> table

HasRow(table, n) == \E r \in table : r.option_name = n
ValuesOf(table, n) == {r.option_value : r \in {q \in table : q.option_name = n}}

(* Table wp_users (entities/wp_user.py lines 27-37): ID, user_login and    *)
(* user_pass of each row.  Before WordPress is installed the table does    *)
(* not exist, and a statement that names it fails.                         *)
NoUsersTable == [exists |-> FALSE, rows |-> {}]
UsersTable(rows) == [exists |-> TRUE, rows |-> rows]
UserRow(id, login, pass) == [ID |-> id, user_login |-> login, user_pass |-> pass]

\* USERNAME and PASSWORD (conftest.py lines 31-32, reset_password.py line 13)
USERNAME == "test_user"
PASSWORD == "-JfG+L.3-s!A6YmhsKGkGERc+hq&XswU"

\* phpass.using(rounds=8, ident="P").hash(secret) (conftest.py line 258):
\* "$P$", the rounds, a salt drawn at random and the digest of salt and
\* secret; the digest is kept as the pair it was computed from.
Salts == {"salt1", "salt2"}
phpass_hash(salt, secret) == <<"$P$", "rounds=8", salt, <<salt, secret>>>>
\* What WordPress checks at login: the digest of the hash's own salt and
\* the password typed equals the digest stored in the hash.
phpass_verify(hash, secret) == hash[1] = "$P$" /\ hash[4] = <<hash[3], secret>>

\* SELECT COUNT(*) FROM wp_users
CountUsers == [op |-> "COUNT_USERS", name |-> "", value |-> "", autoload |-> ""]
\* SELECT ID FROM wp_users WHERE user_login = login
SelectUserId(login) == [op |-> "SELECT_USER_ID", name |-> login, value |-> "", autoload |-> ""]
\* SELECT user_pass FROM wp_users WHERE user_login = login
SelectUserPass(login) == [op |-> "SELECT_USER_PASS", name |-> login, value |-> "", autoload |-> ""]
\* UPDATE wp_users SET user_pass = hash WHERE ID = id
UpdateUserPass(id, hash) == [op |-> "UPDATE_USER_PASS", name |-> id, value |-> hash, autoload |-> ""]

UsersOps == {"COUNT_USERS", "SELECT_USER_ID", "SELECT_USER_PASS", "UPDATE_USER_PASS"}

ExecUsers(stmt, users) ==
    IF stmt.op = "UPDATE_USER_PASS"
    THEN [users EXCEPT !.rows =
            {IF r.ID = stmt.name THEN [r EXCEPT !.user_pass = stmt.value] ELSE r : r \in @}]
    ELSE users

\* The statement names a table that does not exist.
TableMissing(stmt, users) ==
    stmt.op = "SELECT_MISSING" \/ (stmt.op \in UsersOps /\ ~users.exists)

(* Exceptions.  Database errors are Exceptions; KeyboardInterrupt stands   *)
(* for the BaseExceptions (KeyboardInterrupt, SystemExit from sys.exit     *)
(* inside a with-block) that "except Exception" does not catch.            *)
NoExc == "none"
DbErrors == {"OperationalError"}
BaseExceptions == {"KeyboardInterrupt"}
IsException(e) == e \in DbErrors \cup {"ProgrammingError"}

----------------------------------------------------------------------------
(* FixtureLoader.load's test of its path (fixture_loader.py line 41). *)
FixturePath == <<".", "/", "t", "e", "s", "t", "l", "i", "b", "r", "a", "r", "i", "e", "s", "/", "f", "i", "x", "t", "u", "r", "e", "s", "/", "W", "p", "O", "p", "t", "i", "o", "n", "s", "S", "t", "a", "t", "i", "c", "P", "r", "e", "s", "s", "2", "0", "1", "9", ".", "y", "m", "l">>
UpperSnakePath == <<"W", "P", "_", "O", "P", "T", "I", "O", "N", "S", "_", "S", "T", "A", "T", "I", "C", "P", "R", "E", "S", "S", "2", "0", "1", "9", ".", "y", "m", "l">>
LowerCamelPath == <<"w", "p", "o", "p", "t", "i", "o", "n", "s", "s", "t", "a", "t", "i", "c", "p", "r", "e", "s", "s", "2", "0", "1", "9", ".", "y", "m", "l">>
OtherPath == <<"W", "p", "P", "o", "s", "t", "s", ".", "y", "m", "l">>
Paths == {FixturePath, UpperSnakePath, LowerCamelPath, OtherPath}

NeedleCamel == <<"W", "p", "O", "p", "t", "i", "o", "n", "s", "S", "t", "a", "t", "i", "c", "P", "r", "e", "s", "s", "2", "0", "1", "9">>
NeedleSnake == <<"w", "p", "_", "o", "p", "t", "i", "o", "n", "s", "_", "s", "t", "a", "t", "i", "c", "p", "r", "e", "s", "s", "2", "0", "1", "9">>

UpperLetters == <<"A", "B", "C", "D", "E", "F", "G", "H", "I", "J", "K", "L", "M", "N", "O", "P", "Q", "R", "S", "T", "U", "V", "W", "X", "Y", "Z">>
LowerLetters == <<"a", "b", "c", "d", "e", "f", "g", "h", "i", "j", "k", "l", "m", "n", "o", "p", "q", "r", "s", "t", "u", "v", "w", "x", "y", "z">>

\* str.lower()
str_lower(s) ==
    [i \in 1..Len(s) |->
        IF \E k \in 1..Len(UpperLetters) : UpperLetters[k] = s[i]
        THEN LowerLetters[CHOOSE k \in 1..Len(UpperLetters) : UpperLetters[k] = s[i]]
        ELSE s[i]]

\* needle in s
str_contains(s, needle) ==
    \E i \in 0..(Len(s) - Len(needle)) : SubSeq(s, i + 1, i + Len(needle)) = needle

PathMatches_always(path) == TRUE
PathMatches(path) ==
    str_contains(path, NeedleCamel) \/ str_contains(str_lower(path), NeedleSnake)

----------------------------------------------------------------------------
(* The with-block bodies. *)

\* TableCleaner.clean (table_cleaner.py lines 40-44)
CleanProgram_skipdir == <<Delete(StaticUrl), Delete(Timeout)>>
CleanProgram == <<Delete(StaticUrl), Delete(StaticDir), Delete(Timeout)>>

\* FixtureLoader.load (fixture_loader.py lines 38-88)
LoadProgram_testvalues(path) ==
    IF PathMatches(path)
    THEN << Upsert(StaticUrl, PageValue(StaticUrl), "yes"),
            Upsert(StaticDir, PageValue(StaticDir), "yes"),
            Upsert(Timeout, PageValue(Timeout), "yes") >>
    ELSE <<>>
LoadProgram(path) ==
    IF PathMatches(path)
    THEN << Upsert(StaticUrl, "http://example.org/sub/", "yes"),
            Upsert(StaticDir, "/var/www/html/wp-content/staticpress/", "yes"),
            Upsert(Timeout, "20", "yes") >>
    ELSE <<>>

\* Blocks written by test code (test_database_layer.py lines 144-148 and
\* the like): up to MaxStmts statements.
TestStmts ==
    {Select(StaticUrl), SelectMissing, Delete(Timeout),
     Upsert(StaticUrl, PageValue(StaticUrl), "no")}

RECURSIVE ProgramsUpTo(_)
ProgramsUpTo(n) ==
    IF n = 0 THEN {<<>>}
    ELSE LET shorter == ProgramsUpTo(n - 1)
         IN  shorter \cup {Append(q, st) : q \in {t \in shorter : Len(t) = n - 1}, st \in TestStmts}

TestPrograms == ProgramsUpTo(MaxStmts)

----------------------------------------------------------------------------
(* get_db_connection (config.py lines 39-76) *)

\* Where control goes when the with-block body ends with exception e (NoExc:
\* it finished): commit after the yield, the except clause for an Exception,
\* the finally clause for anything else.
AfterBlock_commitalways(e) == "commit"
AfterBlock(e) ==
    IF e = NoExc THEN "commit"
    ELSE IF IsException(e) THEN "except"
    ELSE "finally"

\* except Exception: connection.rollback(); raise  -- the exception that
\* leaves the except clause.
ExceptClause_swallow(e) == NoExc
ExceptClause(e) == e

\* finally: connection.close(); engine.dispose() -- <<connection open, engine live>>
\* after the clause, when it is entered with exception e in flight.
FinallyClause_normalonly(e) == IF e = NoExc THEN <<FALSE, FALSE>> ELSE <<TRUE, TRUE>>
FinallyClause(e) == <<FALSE, FALSE>>

\* create_engine, engine.connect(), then the body of the with statement starts.
Enter(op, path, program) ==
    /\ db_pc \in {"idle", "done"}
    /\ db_pc' = "block"
    /\ db_op' = op
    /\ db_path' = path
    /\ prog' = program
    /\ stmt_idx' = 1
    /\ txn' = wp_options
    /\ conn_open' = TRUE
    /\ engine_live' = TRUE
    /\ exc' = NoExc
    /\ before' = wp_options
    /\ block_exc' = NoExc
    /\ raised_exc' = NoExc
    /\ commit_calls' = 0
    /\ rolled_back' = FALSE
    /\ prev_result' = db_result
    /\ users_txn' = wp_users
    /\ users_before' = wp_users
    /\ UNCHANGED <<wp_options, db_result, wp_users>>

\* conn.execute(...) succeeds
DbExecute ==
    /\ db_pc = "block"
    /\ stmt_idx <= Len(prog)
    /\ ~TableMissing(prog[stmt_idx], users_txn)
    /\ txn' = Exec(prog[stmt_idx], txn)
    /\ users_txn' = ExecUsers(prog[stmt_idx], users_txn)
    /\ stmt_idx' = stmt_idx + 1
    /\ UNCHANGED <<wp_options, db_pc, db_op, db_path, prev_result, prog, conn_open, engine_live,
                   exc, db_result, before, block_exc, raised_exc, commit_calls,
                   rolled_back, wp_users, users_before>>
    /\ UNCHANGED not_db_vars

\* conn.execute(...) raises: the body of the with statement ends with it
DbExecuteRaises ==
    /\ db_pc = "block"
    /\ stmt_idx <= Len(prog)
    /\ \E e \in (IF TableMissing(prog[stmt_idx], users_txn)
                 THEN {"ProgrammingError"} ELSE DbErrors \cup BaseExceptions) :
          /\ exc' = e
          /\ block_exc' = e
          /\ raised_exc' = e
          /\ db_pc' = AfterBlock(e)
    /\ UNCHANGED <<wp_options, db_op, db_path, prev_result, prog, stmt_idx, txn, conn_open,
                   engine_live, db_result, before, commit_calls, rolled_back,
                   wp_users, users_txn, users_before>>
    /\ UNCHANGED not_db_vars

\* the body of the with statement finishes
DbBlockExit ==
    /\ db_pc = "block"
    /\ stmt_idx > Len(prog)
    /\ db_pc' = AfterBlock(NoExc)
    /\ UNCHANGED <<wp_options, db_op, db_path, prev_result, prog, stmt_idx, txn, conn_open,
                   engine_live, exc, db_result, before, block_exc, raised_exc,
                   commit_calls, rolled_back, wp_users, users_txn, users_before>>
    /\ UNCHANGED not_db_vars

\* connection.commit() succeeds: the transaction's rows become the table
DbCommit ==
    /\ db_pc = "commit"
    /\ wp_options' = txn
    /\ wp_users' = users_txn
    /\ commit_calls' = commit_calls + 1
    /\ db_pc' = "finally"
    /\ UNCHANGED <<db_op, db_path, prev_result, prog, stmt_idx, txn, conn_open, engine_live,
                   exc, db_result, before, block_exc, raised_exc, rolled_back,
                   users_txn, users_before>>
    /\ UNCHANGED not_db_vars

\* connection.commit() raises: nothing is committed
DbCommitRaises ==
    /\ db_pc = "commit"
    /\ exc = NoExc
    /\ \E e \in DbErrors \cup BaseExceptions :
          /\ exc' = e
          /\ raised_exc' = e
          /\ db_pc' = IF IsException(e) THEN "except" ELSE "finally"
    /\ commit_calls' = commit_calls + 1
    /\ UNCHANGED <<wp_options, db_op, db_path, prev_result, prog, stmt_idx, txn, conn_open,
                   engine_live, db_result, before, block_exc, rolled_back,
                   wp_users, users_txn, users_before>>
    /\ UNCHANGED not_db_vars

\* except Exception: connection.rollback(); raise
DbExcept ==
    /\ db_pc = "except"
    /\ txn' = wp_options
    /\ users_txn' = wp_users
    /\ rolled_back' = TRUE
    /\ exc' = ExceptClause(exc)
    /\ db_pc' = "finally"
    /\ UNCHANGED <<wp_options, db_op, db_path, prev_result, prog, stmt_idx, conn_open,
                   engine_live, db_result, before, block_exc, raised_exc,
                   commit_calls, wp_users, users_before>>
    /\ UNCHANGED not_db_vars

\* finally: connection.close(); engine.dispose().  Closing a connection
\* rolls back the transaction it still has in place.
DbFinally ==
    /\ db_pc = "finally"
    /\ conn_open' = FinallyClause(exc)[1]
    /\ engine_live' = FinallyClause(exc)[2]
    /\ txn' = IF FinallyClause(exc)[1] THEN txn ELSE wp_options
    /\ users_txn' = IF FinallyClause(exc)[1] THEN users_txn ELSE wp_users
    /\ rolled_back' = (rolled_back \/ (~FinallyClause(exc)[1]
                                       /\ (txn # wp_options \/ users_txn # wp_users)))
    /\ db_result' = IF exc = NoExc THEN "returned" ELSE "raised"
    /\ db_pc' = "done"
    /\ UNCHANGED <<wp_options, db_op, db_path, prev_result, prog, stmt_idx, exc, before,
                   block_exc, raised_exc, commit_calls, wp_users, users_before>>
    /\ UNCHANGED not_db_vars

DbSteps ==
    \/ DbExecute
    \/ DbExecuteRaises
    \/ DbBlockExit
    \/ DbCommit
    \/ DbCommitRaises
    \/ DbExcept
    \/ DbFinally

----------------------------------------------------------------------------
(* Callers of the database layer, one call at a time. *)

\* TableCleaner.clean()
CallClean ==
    /\ Enter("clean", <<>>, CleanProgram)
    /\ UNCHANGED not_db_vars

\* FixtureLoader.load(fixtures_path)
CallLoad ==
    /\ \E path \in Paths : Enter("load", path, LoadProgram(path))
    /\ UNCHANGED not_db_vars

\* with get_db_connection() as conn: <statements of a test>
CallTestBlock ==
    /\ \E p \in TestPrograms : Enter("test", <<>>, p)
    /\ UNCHANGED not_db_vars

\* _ensure_test_user_password's with-block (conftest.py lines 261-292).
\* What the SELECTs return is what the table holds when the block starts:
\* the block writes only after its last SELECT.
EnsureProgram(users, password_hash) ==
    <<CountUsers>> \o
    (IF ~users.exists THEN <<>>
     ELSE IF Cardinality(users.rows) = 0 THEN <<Update("siteurl", "")>>
     ELSE <<SelectUserId(USERNAME)>> \o
          (IF \E r \in users.rows : r.user_login = USERNAME
           THEN LET user_row == CHOOSE r \in users.rows : r.user_login = USERNAME
                IN  <<UpdateUserPass(user_row.ID, password_hash)>>
           ELSE <<>>))

\* try: with get_db_connection() ... except Exception as e: print; return
\* (conftest.py lines 260, 293-296): how _ensure_test_user_password ends when
\* its with statement ended with result and exception e.
EnsureOutcome_reraise(result, e) == result
EnsureOutcome(result, e) ==
    IF result = "returned" \/ IsException(e) THEN "returned" ELSE "raised"

\* reset_password.py lines 30-35: the only statement of the script
ResetPasswordProgram == <<SelectUserPass("test_user")>>

\* python reset_password.py
CallResetPassword ==
    /\ Enter("reset_password", <<>>, ResetPasswordProgram)
    /\ UNCHANGED not_db_vars

\* The wp_users tables of the model: no table, an empty one, and tables with
\* an administrator and with test_user, whose password may be another one.
OtherPassword == "another password"
AdminRow == UserRow("1", "admin", phpass_hash("salt0", OtherPassword))
TestUserRow(secret) == UserRow("2", USERNAME, phpass_hash("salt0", secret))
InitialUsersTables ==
    {NoUsersTable, UsersTable({AdminRow, TestUserRow(OtherPassword)})}
SetupUsersTables ==
    InitialUsersTables \cup
    {UsersTable({}), UsersTable({AdminRow}), UsersTable({TestUserRow(PASSWORD)})}

\* The tables a WordPress installation may hold before the harness runs: at
\* most one row per option_name.
InitialRowChoices(n) ==
    {{}, {Row(n, FixtureValue(n), "yes")}, {Row(n, PageValue(n), "no")}}

InitialTables ==
    {u \cup d \cup t \cup {Row("siteurl", "http://localhost/", "yes")} :
        u \in InitialRowChoices(StaticUrl),
        d \in InitialRowChoices(StaticDir),
        t \in InitialRowChoices(Timeout)}

----------------------------------------------------------------------------
(* setup_database_fixtures (conftest.py lines 351-384) and the tests. *)

MaxTests == 2

ActivePlugins == "active_plugins"
\* a:1:{i:0;s:26:"staticpress2019/plugin.php";}  (conftest.py line 169)
StaticPressActive == "a:1:{i:0;s:26:\"staticpress2019/plugin.php\";}"

\* _activate_staticpress_plugin (conftest.py lines 161-175)
ActivateProgram == <<Update(ActivePlugins, StaticPressActive)>>

\* wp_version.split(".") and f"{version_parts[0]}.{version_parts[1]}"
\* (conftest.py lines 226-227), on the versions of the model.
MajorMinor(wp_version) ==
    CASE wp_version = "6.8.3" -> "6.8"
      [] wp_version = "4.6.1" -> "4.6"
      [] wp_version = "3.9"   -> "3.9"
      [] OTHER -> wp_version

\* wp_version_to_db_version.get(major_minor, "58975") (conftest.py lines 190-230)
TargetDbVersion(major_minor) ==
    CASE major_minor = "6.8" -> "58975"
      [] major_minor = "6.7" -> "58975"
      [] major_minor = "6.6" -> "57155"
      [] major_minor = "4.6" -> "38590"
      [] OTHER -> "58975"

\* _update_database_version (conftest.py lines 178-247).  The rows the
\* SELECTs return are those of the table the block starts from: the block
\* writes only after its last SELECT.
UpdateDbVersionProgram(table) ==
    <<Select("version")>> \o
    (IF HasRow(table, "version")
     THEN <<Select("db_version")>> \o
          (IF HasRow(table, "db_version")
           THEN LET wp_version == CHOOSE v \in ValuesOf(table, "version") : TRUE
                IN  <<Update("db_version", TargetDbVersion(MajorMinor(wp_version)))>>
           ELSE <<>>)
     ELSE <<>>)

\* The calls setup_database_fixtures makes, in order.
FixtureSteps_loadfirst == <<"load", "clean", "activate", "update_db_version">>
FixtureSteps == <<"clean", "load", "activate", "update_db_version">>

ProgramOf(op, table) ==
    CASE op = "clean"    -> CleanProgram
      [] op = "load"     -> LoadProgram(FixturePath)
      [] op = "activate" -> ActivateProgram
      [] op = "update_db_version" -> UpdateDbVersionProgram(table)

\* What setup_database_fixtures does when a call has ended with result:
\* "except Exception as err: print(err); raise err or Exception(...)"
\* (lines 367-369, 374-376) and no handler at all (lines 379, 382) both let
\* the exception end the fixture.
AfterCall_swallow(result) == "next"
AfterCall(result) == IF result = "raised" THEN "raise" ELSE "next"

\* setup_database_fixtures makes its next call: the first one, or the one
\* after a call that returned.
FxCall ==
    /\ fx_pc = "fixture"
    /\ fx_step < Len(FixtureSteps)
    /\ fx_step = 0 \/ (db_pc = "done" /\ AfterCall(db_result) = "next")
    /\ LET op == FixtureSteps[fx_step + 1]
       IN  /\ Enter(op, IF op = "load" THEN FixturePath ELSE <<>>, ProgramOf(op, wp_options))
           /\ fx_calls' = Append(fx_calls, op)
    /\ fx_step' = fx_step + 1
    /\ fx_runs' = IF fx_step = 0 THEN fx_runs + 1 ELSE fx_runs
    /\ UNCHANGED <<fx_pc, tests_run, prev_wrote, tests_called, test_result, test_changed>>
    /\ UNCHANGED <<xp_vars, sw_vars, ui_vars>>

\* a call raised: "raise err" (lines 367-369, 374-376) or no handler at
\* all (lines 379, 382); the fixture ends with the exception
FxRaise ==
    /\ fx_pc = "fixture"
    /\ fx_step >= 1
    /\ db_pc = "done"
    /\ AfterCall(db_result) = "raise"
    /\ fx_pc' = IF IsException(exc) THEN "error" ELSE "aborted"
    /\ UNCHANGED <<fx_step, fx_calls, tests_run, prev_wrote, fx_runs, tests_called,
                   test_result, test_changed>>
    /\ UNCHANGED <<xp_vars, db_vars, sw_vars, ui_vars>>

\* the last call returned: the fixture returns and pytest calls the test
FxReturn ==
    /\ fx_pc = "fixture"
    /\ fx_step = Len(FixtureSteps)
    /\ db_pc = "done"
    /\ AfterCall(db_result) = "next"
    /\ fx_pc' = "test"
    /\ UNCHANGED <<fx_step, fx_calls, tests_run, prev_wrote, fx_runs, tests_called,
                   test_result, test_changed>>
    /\ UNCHANGED <<xp_vars, db_vars, sw_vars, ui_vars>>

\* What a test may leave in the table through the options page of
\* WordPress: any of the three options absent, or set to some value.
\* What the test leaves of an option: the rows it found, or one of the
\* other contents.
RowChoicesAfterTest(table, n) ==
    {{r \in table : r.option_name = n}} \cup InitialRowChoices(n)

TablesAfterTest(table) ==
    {{r \in table : r.option_name \notin StaticPressNames} \cup u \cup d \cup t :
        u \in RowChoicesAfterTest(table, StaticUrl),
        d \in RowChoicesAfterTest(table, StaticDir),
        t \in RowChoicesAfterTest(table, Timeout)}

\* The database assertions of test_sets_option_and_rebuilds (tests/test_all.py
\* lines 139-165): for each option the SELECT finds a row and its
\* option_value is the value the options page was given.
DbAssertions(table) ==
    \A n \in StaticPressNames :
        HasRow(table, n) /\ ValuesOf(table, n) = {PageValue(n)}

NextTest ==
    /\ tests_run' = tests_run + 1
    /\ fx_pc' = IF tests_run + 1 < MaxTests THEN "setup" ELSE "end"
    /\ fx_step' = 0
    /\ fx_calls' = <<>>

\* the test function runs
TestBody ==
    /\ fx_pc = "test"
    /\ wp_options' \in TablesAfterTest(wp_options)
    /\ prev_wrote' = (wp_options' # wp_options)
    /\ test_changed' = {n \in StaticPressNames :
                           {r \in wp_options' : r.option_name = n}
                               # {r \in wp_options : r.option_name = n}}
    \* the test passes only if the database assertions hold; its other
    \* assertions are the browser's to decide
    /\ test_result' \in IF DbAssertions(wp_options') THEN {"passed", "failed"}
                                                     ELSE {"failed"}
    /\ tests_called' = tests_called + 1
    /\ NextTest
    /\ UNCHANGED fx_runs
    /\ UNCHANGED <<db_pc, db_op, db_path, prev_result, prog, stmt_idx, txn, conn_open,
                   engine_live, exc, db_result, before, block_exc, raised_exc,
                   commit_calls, rolled_back, wp_users, users_txn, users_before>>
    /\ UNCHANGED <<xp_vars, sw_vars, ui_vars>>

\* the fixture raised: pytest reports the test as an error without calling it
TestNotRun ==
    /\ fx_pc = "error"
    /\ prev_wrote' = FALSE
    /\ test_result' = "not_run"
    /\ test_changed' = {}
    /\ NextTest
    /\ UNCHANGED <<fx_runs, tests_called>>
    /\ UNCHANGED <<xp_vars, db_vars, sw_vars, ui_vars>>

SessionTables ==
    {sp \cup v \cup dv \cup {Row(ActivePlugins, "a:0:{}", "yes")} :
        sp \in {{}, {Row(n, PageValue(n), "no") : n \in StaticPressNames},
                {Row(StaticDir, "/var/www/web/static/", "yes")}},
        v \in {{}, {Row("version", "6.8.3", "yes")}, {Row("version", "4.6.1", "yes")},
               {Row("version", "3.9", "yes")}},
        dv \in {{}, {Row("db_version", "38590", "yes")}}}

----------------------------------------------------------------------------
\* escaped = RoutineOperation.escape_xpath_string(text)
EscapeXpathString ==
    /\ xp_pc = "ready"
    /\ escaped' = escape_xpath_string(text)
    /\ xp_pc' = "escaped"
    /\ UNCHANGED <<text, tag, click_calls, clicks>>
    /\ UNCHANGED not_xp_vars

\* RoutineOperation.click_by_text(page, tag, text)
ClickByText ==
    /\ click_calls < MaxClicks
    /\ clicks' = locator_first_click(clicks, click_selector(tag, text))
    /\ click_calls' = click_calls + 1
    /\ UNCHANGED <<xp_pc, text, tag, escaped>>
    /\ UNCHANGED not_xp_vars

----------------------------------------------------------------------------
(* PagePlugins.activate_plugin (pages/page_plugins.py lines 22-42).  The   *)
(* plugins page lists each plugin with an "Activate" link while it is      *)
(* inactive; whether a click activates the plugin is WordPress's answer.   *)

MaxActivations == 2

StaticPress2019 == <<"StaticPress2019">>
QuotedPlugin == <<"Tom", SQ, "s">>
PluginNames == {StaticPress2019, QuotedPlugin}
PluginStates == {"inactive", "active", "absent"}

\* xpath = f'//strong[text()={escaped_plugin_name}]/following-sibling::div//a[text()="Activate"]'
ActivateXpath(plugin_name) ==
    <<"//strong[text()=">> \o escape_xpath_string(plugin_name)
        \o <<"]/following-sibling::div//a[text()=\"Activate\"]">>

\* self.page.locator(f"xpath=.{xpath}").first
ActivateLocator(plugin_name) == <<"xpath=.">> \o ActivateXpath(plugin_name)

\* link_handler.count(): the elements the locator matches, at most one
\* because of .first
LinkCount(listed, plugin_name) == IF listed[plugin_name] = "inactive" THEN 1 ELSE 0

\* if link_handler.count() > 0:
ShouldClick_always(link_count) == TRUE
ShouldClick(link_count) == link_count > 0

\* The body of activate_plugin(plugin_name).
activate_plugin(plugin_name) ==
    LET link_count == LinkCount(plugins, plugin_name)
    IN  /\ plugins_before' = plugins
        /\ \E outcome \in (IF ShouldClick(link_count)
                          THEN {"activated", "not_activated", "click_raised"}
                          ELSE {"skipped"}) :
              /\ plugin_clicks' =
                    IF outcome \in {"activated", "not_activated"}
                    THEN locator_first_click(plugin_clicks, ActivateLocator(plugin_name))
                    ELSE plugin_clicks
              /\ plugin_waits' =
                    IF outcome \in {"activated", "not_activated"}
                    THEN plugin_waits + 1 ELSE plugin_waits
              /\ plugins' =
                    IF outcome = "activated"
                    THEN [plugins EXCEPT ![plugin_name] = "active"] ELSE plugins
              /\ activations' = Append(activations,
                    [name |-> plugin_name, links |-> link_count, outcome |-> outcome,
                     clicks |-> Len(plugin_clicks') - Len(plugin_clicks),
                     waits |-> plugin_waits' - plugin_waits])

\* PagePlugins(page).activate_plugin(plugin_name)
CallActivatePlugin ==
    /\ Len(activations) < MaxActivations
    /\ \E plugin_name \in PluginNames : activate_plugin(plugin_name)
    /\ UNCHANGED <<lp_vars, rb_vars, so_vars>>
    /\ UNCHANGED <<xp_vars, db_vars, fx_vars, sw_vars>>

----------------------------------------------------------------------------
(* setup_wordpress (conftest.py lines 83-138), _initialize_wordpress       *)
(* (lines 299-321) and _login_wordpress (lines 324-348).  What WordPress   *)
(* displays after a navigation is its own choice: any page of Pages.       *)

MaxHeadings == 2

\* A page: how many <label>Select a default language</label> and how many
\* <h1>/<h2>Information needed</h2> elements it holds.
Pages == [lang_labels : 0..1, info_headings : 0..MaxHeadings]
NoPage == [lang_labels |-> 0, info_headings |-> 0]

\* PageLanguageChooser.is_displayed_now (page_language_chooser.py lines 35-44)
LanguageChooserDisplayed(pg) == pg.lang_labels > 0

\* PageWelcome.is_displayed_now (page_welcome.py lines 62-76)
WelcomeDisplayed(pg) == pg.info_headings > 0

\* if page_welcome.is_displayed_now(): ... else: ...  (conftest.py lines 129-136)
SetupBranch_inverted(displayed) ==
    IF displayed THEN "_login_wordpress" ELSE "_initialize_wordpress"
SetupBranch(displayed) ==
    IF displayed THEN "_initialize_wordpress" ELSE "_login_wordpress"

FirstStepOf(fn) == IF fn = "_initialize_wordpress" THEN "init_install" ELSE "login_goto"

LogIn == <<"L", "o", "g", " ", "I", "n">>
LoginUrls == {"wp-admin/", "wp-login.php"}
NoLoginPage == [url |-> "", form_visible |-> FALSE]

\* setup_wordpress starts: _ensure_test_user_password() (line 99) hashes the
\* password and opens its with-block
SwStart ==
    /\ sw_pc = "start"
    /\ \E salt \in Salts :
          Enter("ensure", <<>>, EnsureProgram(wp_users, phpass_hash(salt, PASSWORD)))
    /\ sw_runs' = sw_runs + 1
    /\ sw_pc' = "ensure"
    /\ UNCHANGED <<page, context_open, goto_ok, welcome_check, sw_calls, all_calls,
                   login_caller, login_page, sw_exc>>
    /\ UNCHANGED <<xp_vars, fx_vars, ui_vars>>

\* _ensure_test_user_password ends: it returns, or lets the exception pass
\* that "except Exception" does not catch; setup_wordpress has no handler
\* around the call
SwEnsureDone ==
    /\ sw_pc = "ensure"
    /\ db_pc = "done"
    /\ db_op = "ensure"
    /\ LET outcome == EnsureOutcome(db_result, exc)
       IN  /\ sw_pc' = IF outcome = "returned" THEN "new_context" ELSE "raised"
           /\ sw_exc' = IF outcome = "returned" THEN NoExc ELSE exc
    /\ UNCHANGED <<page, context_open, goto_ok, welcome_check, sw_calls, all_calls,
                   login_caller, login_page, sw_runs>>
    /\ UNCHANGED <<xp_vars, db_vars, fx_vars, ui_vars>>

\* browser.new_context(...), context.new_page() (lines 101-108)
SwNewContext ==
    /\ sw_pc = "new_context"
    /\ context_open' = TRUE
    /\ sw_pc' = "goto"
    /\ UNCHANGED <<page, goto_ok, welcome_check, sw_calls, all_calls, login_caller,
                   login_page, sw_exc, sw_runs>>
    /\ UNCHANGED <<xp_vars, db_vars, fx_vars, ui_vars>>

\* page.goto(HOST) returns
SwGoto ==
    /\ sw_pc = "goto"
    /\ page' \in Pages
    /\ goto_ok' = TRUE
    /\ sw_pc' = "screenshot"
    /\ UNCHANGED <<context_open, welcome_check, sw_calls, all_calls, login_caller,
                   login_page, sw_exc>>
    /\ UNCHANGED sw_runs
    /\ UNCHANGED <<xp_vars, db_vars, fx_vars, ui_vars>>

\* page.screenshot(path="screenshot1.png")
SwScreenshot ==
    /\ sw_pc = "screenshot"
    /\ sw_pc' = "language"
    /\ UNCHANGED <<page, context_open, goto_ok, welcome_check, sw_calls, all_calls,
                   login_caller, login_page, sw_exc>>
    /\ UNCHANGED sw_runs
    /\ UNCHANGED <<xp_vars, db_vars, fx_vars, ui_vars>>

\* the language chooser is displayed: choose("English (United States)")
SwLanguageChoose ==
    /\ sw_pc = "language"
    /\ LanguageChooserDisplayed(page)
    /\ page' \in Pages
    /\ sw_pc' = "welcome"
    /\ UNCHANGED <<context_open, goto_ok, welcome_check, sw_calls, all_calls,
                   login_caller, login_page, sw_exc>>
    /\ UNCHANGED sw_runs
    /\ UNCHANGED <<xp_vars, db_vars, fx_vars, ui_vars>>

\* the language chooser is not displayed
SwLanguageSkip ==
    /\ sw_pc = "language"
    /\ ~LanguageChooserDisplayed(page)
    /\ sw_pc' = "welcome"
    /\ UNCHANGED <<page, context_open, goto_ok, welcome_check, sw_calls, all_calls,
                   login_caller, login_page, sw_exc>>
    /\ UNCHANGED sw_runs
    /\ UNCHANGED <<xp_vars, db_vars, fx_vars, ui_vars>>

\* if page_welcome.is_displayed_now(): _initialize_wordpress(page)
\* else: _login_wordpress(page)
SwWelcome ==
    /\ sw_pc = "welcome"
    /\ LET displayed == WelcomeDisplayed(page)
           fn == SetupBranch(displayed)
       IN  /\ welcome_check' = IF displayed THEN "displayed" ELSE "absent"
           /\ sw_calls' = Append(sw_calls, fn)
           /\ all_calls' = Append(all_calls, <<fn, "setup_wordpress">>)
           /\ sw_pc' = FirstStepOf(fn)
    /\ login_caller' = "setup_wordpress"
    /\ UNCHANGED <<page, context_open, goto_ok, login_page, sw_exc>>
    /\ UNCHANGED sw_runs
    /\ UNCHANGED <<xp_vars, db_vars, fx_vars, ui_vars>>

\* _initialize_wordpress: page_welcome.install(...)
InitInstall ==
    /\ sw_pc = "init_install"
    /\ page' \in Pages
    /\ sw_pc' = "init_click"
    /\ UNCHANGED <<context_open, goto_ok, welcome_check, sw_calls, all_calls,
                   login_caller, login_page, sw_exc>>
    /\ UNCHANGED sw_runs
    /\ UNCHANGED <<xp_vars, db_vars, fx_vars, ui_vars>>

\* RoutineOperation.click_by_text(page, "a", "Log In"); wait_for_load_state
InitClickLogIn ==
    /\ sw_pc = "init_click"
    /\ clicks' = locator_first_click(clicks, click_selector(<<"a">>, LogIn))
    /\ click_calls' = click_calls + 1
    /\ page' \in Pages
    /\ sw_pc' = "init_login"
    /\ UNCHANGED <<context_open, goto_ok, welcome_check, sw_calls, all_calls,
                   login_caller, login_page, sw_exc>>
    /\ UNCHANGED <<xp_pc, text, tag, escaped>>
    /\ UNCHANGED sw_runs
    /\ UNCHANGED <<db_vars, fx_vars, ui_vars>>

\* _login_wordpress(page), called by _initialize_wordpress (line 315)
InitCallLogin ==
    /\ sw_pc = "init_login"
    /\ all_calls' = Append(all_calls, <<"_login_wordpress", "_initialize_wordpress">>)
    /\ login_caller' = "_initialize_wordpress"
    /\ sw_pc' = "login_goto"
    /\ UNCHANGED <<page, context_open, goto_ok, welcome_check, sw_calls, login_page,
                   sw_exc>>
    /\ UNCHANGED sw_runs
    /\ UNCHANGED <<xp_vars, db_vars, fx_vars, ui_vars>>

\* page_admin.click_menu("Plugins"); page_plugins.activate_plugin("StaticPress2019")
InitActivatePlugin ==
    /\ sw_pc = "init_plugins"
    /\ activate_plugin(StaticPress2019)
    /\ page' \in Pages
    /\ sw_exc' = IF activations'[Len(activations')].outcome = "click_raised"
                THEN "Error" ELSE sw_exc
    /\ sw_pc' = "finally"
    /\ UNCHANGED <<context_open, goto_ok, welcome_check, sw_calls, all_calls,
                   login_caller, login_page, sw_runs>>
    /\ UNCHANGED <<lp_vars, rb_vars, so_vars>>
    /\ UNCHANGED <<xp_vars, db_vars, fx_vars>>

AfterLogin == IF login_caller = "_initialize_wordpress" THEN "init_plugins" ELSE "finally"

\* _login_wordpress: page.goto(HOST + "wp-login.php", wait_until="networkidle")
LoginGoto ==
    /\ sw_pc = "login_goto"
    /\ login_page' \in [url : LoginUrls, form_visible : BOOLEAN]
    /\ page' = NoPage
    /\ sw_pc' = "login_check"
    /\ UNCHANGED <<context_open, goto_ok, welcome_check, sw_calls, all_calls,
                   login_caller, sw_exc>>
    /\ UNCHANGED sw_runs
    /\ UNCHANGED <<xp_vars, db_vars, fx_vars, ui_vars>>

\* "wp-admin" in page.url, or the login form is not visible: return
LoginSkip ==
    /\ sw_pc = "login_check"
    /\ login_page.url = "wp-admin/" \/ ~login_page.form_visible
    /\ sw_pc' = AfterLogin
    /\ UNCHANGED <<page, context_open, goto_ok, welcome_check, sw_calls, all_calls,
                   login_caller, login_page, sw_exc>>
    /\ UNCHANGED sw_runs
    /\ UNCHANGED <<xp_vars, db_vars, fx_vars, ui_vars>>

\* page_login.login(USERNAME, PASSWORD)
LoginSubmit ==
    /\ sw_pc = "login_check"
    /\ login_page.url # "wp-admin/"
    /\ login_page.form_visible
    /\ login_page' \in [url : LoginUrls, form_visible : BOOLEAN]
    /\ sw_pc' = AfterLogin
    /\ UNCHANGED <<page, context_open, goto_ok, welcome_check, sw_calls, all_calls,
                   login_caller, sw_exc>>
    /\ UNCHANGED sw_runs
    /\ UNCHANGED <<xp_vars, db_vars, fx_vars, ui_vars>>

\* Steps that call the browser and may raise (a navigation error, a timeout).
BrowserSteps ==
    {"goto", "screenshot", "language", "init_install", "init_click", "init_plugins",
     "login_goto", "login_check"}

\* a browser call raises: the exception leaves the try block of setup_wordpress
SwRaise ==
    /\ sw_pc \in BrowserSteps
    /\ sw_pc = "language" => LanguageChooserDisplayed(page)
    /\ sw_pc = "login_check" => (login_page.url # "wp-admin/" /\ login_page.form_visible)
    /\ sw_exc' = "Error"
    /\ sw_pc' = "finally"
    /\ UNCHANGED <<page, context_open, goto_ok, welcome_check, sw_calls, all_calls,
                   login_caller, login_page>>
    /\ UNCHANGED sw_runs
    /\ UNCHANGED <<xp_vars, db_vars, fx_vars, ui_vars>>

\* finally: context.close()
SwFinally ==
    /\ sw_pc = "finally"
    /\ context_open' = FALSE
    /\ sw_pc' = IF sw_exc = NoExc THEN "returned" ELSE "raised"
    /\ UNCHANGED <<page, goto_ok, welcome_check, sw_calls, all_calls, login_caller,
                   login_page, sw_exc>>
    /\ UNCHANGED sw_runs
    /\ UNCHANGED <<xp_vars, db_vars, fx_vars, ui_vars>>

----------------------------------------------------------------------------
(* The re-authentication loop of test_sets_option_and_rebuilds             *)
(* (tests/test_all.py lines 94-111).  A URL is the sequence of its parts;  *)
(* which page WordPress shows after a login or a navigation is its choice. *)

Host == "http://localhost/"
WpLogin == <<"wp-login.php">>
WpAdmin == <<"wp-admin">>

LoginUrl == <<Host, "wp-login.php">>
\* the login page WordPress redirects an expired session to
ReauthUrl == <<Host, "wp-login.php", "?redirect_to=", Host, "wp-admin", "/", "&reauth=1">>
AdminUrl == <<Host, "wp-admin", "/">>
FrontUrl == <<Host>>
Urls == {LoginUrl, ReauthUrl, AdminUrl, FrontUrl}

\* max_login_attempts = 3
max_login_attempts == 3

\* "wp-login.php" in page.url and login_attempts < max_login_attempts
LoopCondition_oneMore(u, attempts) ==
    str_contains(u, WpLogin) /\ attempts <= max_login_attempts
LoopCondition(u, attempts) ==
    str_contains(u, WpLogin) /\ attempts < max_login_attempts

\* max_login_attempts = 3; login_attempts = 0
LoopAssign ==
    /\ lp_pc = "assign"
    /\ login_attempts' = 0
    /\ lp_pc' = "loop_head"
    /\ UNCHANGED <<url, login_calls, tested_url, loop_steps>>
    /\ UNCHANGED <<pl_vars, rb_vars, so_vars>>
    /\ UNCHANGED <<xp_vars, db_vars, fx_vars, sw_vars>>

\* the while condition holds: login_attempts += 1
LoopIterate ==
    /\ lp_pc = "loop_head"
    /\ LoopCondition(url, login_attempts)
    /\ login_attempts' = login_attempts + 1
    /\ tested_url' = url
    /\ loop_steps' = loop_steps + 1
    /\ lp_pc' = "login"
    /\ UNCHANGED <<url, login_calls>>
    /\ UNCHANGED <<pl_vars, rb_vars, so_vars>>
    /\ UNCHANGED <<xp_vars, db_vars, fx_vars, sw_vars>>

\* the while condition fails: on to the screenshot and the menu navigation
LoopLeave ==
    /\ lp_pc = "loop_head"
    /\ ~LoopCondition(url, login_attempts)
    /\ tested_url' = url
    /\ loop_steps' = loop_steps + 1
    /\ lp_pc' = "menu"
    /\ UNCHANGED <<url, login_attempts, login_calls>>
    /\ UNCHANGED <<pl_vars, rb_vars, so_vars>>
    /\ UNCHANGED <<xp_vars, db_vars, fx_vars, sw_vars>>

\* login_form.is_visible(timeout=2000) is false: nothing to submit
LoopFormHidden ==
    /\ lp_pc = "login"
    /\ loop_steps' = loop_steps + 1
    /\ lp_pc' = "check_admin"
    /\ UNCHANGED <<url, login_attempts, login_calls, tested_url>>
    /\ UNCHANGED <<pl_vars, rb_vars, so_vars>>
    /\ UNCHANGED <<xp_vars, db_vars, fx_vars, sw_vars>>

\* the form is visible: page_login.login(USERNAME, PASSWORD) returns
LoopLogin ==
    /\ lp_pc = "login"
    /\ login_calls' = login_calls + 1
    /\ url' \in Urls
    /\ loop_steps' = loop_steps + 1
    /\ lp_pc' = "check_admin"
    /\ UNCHANGED <<login_attempts, tested_url>>
    /\ UNCHANGED <<pl_vars, rb_vars, so_vars>>
    /\ UNCHANGED <<xp_vars, db_vars, fx_vars, sw_vars>>

\* is_visible or login raises an Exception: "except Exception as e: print"
LoopLoginFails ==
    /\ lp_pc = "login"
    /\ \E in_login \in BOOLEAN :
          /\ login_calls' = IF in_login THEN login_calls + 1 ELSE login_calls
          /\ url' \in IF in_login THEN Urls ELSE {url}
    /\ loop_steps' = loop_steps + 1
    /\ lp_pc' = "check_admin"
    /\ UNCHANGED <<login_attempts, tested_url>>
    /\ UNCHANGED <<pl_vars, rb_vars, so_vars>>
    /\ UNCHANGED <<xp_vars, db_vars, fx_vars, sw_vars>>

\* if "wp-admin" not in page.url: page.goto(HOST + "wp-admin/", ...)
LoopCheckAdmin ==
    /\ lp_pc = "check_admin"
    /\ url' \in IF str_contains(url, WpAdmin) THEN {url} ELSE Urls
    /\ loop_steps' = loop_steps + 1
    /\ lp_pc' = "loop_head"
    /\ UNCHANGED <<login_attempts, login_calls, tested_url>>
    /\ UNCHANGED <<pl_vars, rb_vars, so_vars>>
    /\ UNCHANGED <<xp_vars, db_vars, fx_vars, sw_vars>>

\* page.goto raises (a navigation timeout): no handler, the test ends
LoopGotoRaises ==
    /\ lp_pc = "check_admin"
    /\ ~str_contains(url, WpAdmin)
    /\ loop_steps' = loop_steps + 1
    /\ lp_pc' = "raised"
    /\ UNCHANGED <<url, login_attempts, login_calls, tested_url>>
    /\ UNCHANGED <<pl_vars, rb_vars, so_vars>>
    /\ UNCHANGED <<xp_vars, db_vars, fx_vars, sw_vars>>

----------------------------------------------------------------------------
(* PageStaticPress.click_rebuild (pages/page_staticpress.py lines 20-47).  *)
(* Time is counted in minutes; when the "End" message and the result-list  *)
(* entry become visible is StaticPress's doing.                            *)

MaxMinutes == 7

\* timeout=3 * 60 * 1000 (milliseconds), in minutes
WaitTimeout == 3

\* a wait_for called at minute started has run out at minute t
TimedOut_never(started, t) == FALSE
TimedOut(started, t) == t - started >= WaitTimeout

\* li[contains(text(), "/tmp/static/sub/index.html")]
ExpectedFile == <<"/tmp/static/sub/", "index.html">>
\* The entries StaticPress may list: one per file it wrote.
ResultTexts ==
    {<<"/tmp/static/sub/", "index.html">>,
     <<"/tmp/static/sub/", "wp-content/", "style.css">>}
EntryVisible(listed) == \E li \in listed : str_contains(li, ExpectedFile)

Logged(event) == Append(rebuild_log, [event |-> event, at |-> now])

\* self.page.click('input[value="Rebuild"]')
RebuildClick ==
    /\ rb_pc = "click"
    /\ rebuild_log' = Logged("click")
    /\ wait_started' = now
    /\ rb_pc' = "wait_end"
    /\ UNCHANGED <<now, end_visible, result_list>>
    /\ UNCHANGED <<lp_vars, pl_vars, so_vars>>
    /\ UNCHANGED <<xp_vars, db_vars, fx_vars, sw_vars>>

\* locator(...strong[text()="End"]).wait_for(state="visible") returns
RebuildEndSeen ==
    /\ rb_pc = "wait_end"
    /\ end_visible
    /\ rebuild_log' = Logged("end")
    /\ wait_started' = now
    /\ rb_pc' = "wait_entry"
    /\ UNCHANGED <<now, end_visible, result_list>>
    /\ UNCHANGED <<lp_vars, pl_vars, so_vars>>
    /\ UNCHANGED <<xp_vars, db_vars, fx_vars, sw_vars>>

\* locator(...li[contains(text(), "/tmp/static/sub/index.html")]).wait_for returns
RebuildEntrySeen ==
    /\ rb_pc = "wait_entry"
    /\ EntryVisible(result_list)
    /\ rebuild_log' = Logged("entry")
    /\ rb_pc' = "returned"
    /\ UNCHANGED <<now, wait_started, end_visible, result_list>>
    /\ UNCHANGED <<lp_vars, pl_vars, so_vars>>
    /\ UNCHANGED <<xp_vars, db_vars, fx_vars, sw_vars>>

Awaited == IF rb_pc = "wait_end" THEN end_visible ELSE EntryVisible(result_list)

\* the running wait_for raises TimeoutError
RebuildTimeout ==
    /\ rb_pc \in {"wait_end", "wait_entry"}
    /\ ~Awaited
    /\ TimedOut(wait_started, now)
    /\ rebuild_log' = Logged("timeout")
    /\ rb_pc' = "timeout"
    /\ UNCHANGED <<now, wait_started, end_visible, result_list>>
    /\ UNCHANGED <<lp_vars, pl_vars, so_vars>>
    /\ UNCHANGED <<xp_vars, db_vars, fx_vars, sw_vars>>

\* a minute passes while a wait_for is polling for an element that is not
\* visible yet
RebuildTick ==
    /\ rb_pc \in {"wait_end", "wait_entry"}
    /\ ~Awaited
    /\ now < MaxMinutes
    /\ ~TimedOut(wait_started, now)
    /\ now' = now + 1
    /\ UNCHANGED <<rb_pc, wait_started, end_visible, result_list, rebuild_log>>
    /\ UNCHANGED <<lp_vars, pl_vars, so_vars>>
    /\ UNCHANGED <<xp_vars, db_vars, fx_vars, sw_vars>>

\* StaticPress shows the "End" message
EndAppears ==
    /\ rb_pc \in {"wait_end", "wait_entry"}
    /\ ~end_visible
    /\ end_visible' = TRUE
    /\ UNCHANGED <<rb_pc, now, wait_started, result_list, rebuild_log>>
    /\ UNCHANGED <<lp_vars, pl_vars, so_vars>>
    /\ UNCHANGED <<xp_vars, db_vars, fx_vars, sw_vars>>

\* StaticPress lists one more file among the results
EntryAppears ==
    /\ rb_pc \in {"wait_end", "wait_entry"}
    /\ \E li \in ResultTexts \ result_list : result_list' = result_list \cup {li}
    /\ UNCHANGED <<rb_pc, now, wait_started, end_visible, rebuild_log>>
    /\ UNCHANGED <<lp_vars, pl_vars, so_vars>>
    /\ UNCHANGED <<xp_vars, db_vars, fx_vars, sw_vars>>

----------------------------------------------------------------------------
(* PageStaticPressOptions.set_options (pages/page_staticpress_options.py   *)
(* lines 20-61).  The content of a text input and an argument are          *)
(* sequences of pieces of text, the empty string being <<>>.               *)

\* the ids of the selectors 'input[id="..."]' of lines 39-43, in call order
OptionInputs == <<"static_url", "static_dir", "basic_usr", "basic_pwd", "timeout">>
SaveChanges == "input[value=\"Save Changes\"]"

BASIC_AUTH_USERNAME == "authuser"
BASIC_AUTH_PASSWORD == "authpassword"

\* the call of test_sets_option_and_rebuilds (tests/test_all.py lines 129-135)
TestArguments ==
    <<<<PageValue(StaticUrl)>>, <<PageValue(StaticDir)>>, <<BASIC_AUTH_USERNAME>>,
      <<BASIC_AUTH_PASSWORD>>, <<PageValue(Timeout)>>>>
\* a call that empties the basic authentication and keeps the other values
OtherArguments ==
    <<<<FixtureValue(StaticUrl)>>, <<FixtureValue(StaticDir)>>, <<>>, <<>>,
      <<FixtureValue(Timeout)>>>>
Arguments == {TestArguments, OtherArguments}

\* What the options page may show in an input when set_options is called:
\* nothing or a value saved earlier.
InputContents ==
    [static_url |-> {<<>>, <<FixtureValue(StaticUrl)>>},
     static_dir |-> {<<>>, <<FixtureValue(StaticDir)>>},
     basic_usr  |-> {<<>>, <<BASIC_AUTH_USERNAME>>},
     basic_pwd  |-> {<<>>, <<BASIC_AUTH_PASSWORD>>},
     timeout    |-> {<<>>, <<FixtureValue(Timeout)>>}]
Forms == {f \in [DOMAIN InputContents -> UNION {InputContents[i] : i \in DOMAIN InputContents}] :
            \A i \in DOMAIN InputContents : f[i] \in InputContents[i]}

\* element_handler.click(click_count=3): a triple click selects the whole
\* line of a text input
triple_click(content) == content
\* element_handler.fill(input_text): Playwright sets the value of the input
\* to input_text, whatever was selected
fill_typed(content, input_text) == content \o input_text
fill(content, input_text) == input_text

\* self._clear_and_type(selector, argument), lines 39-43 and 48-61
ClearAndType ==
    /\ so_pc = "fill"
    /\ so_step < Len(OptionInputs)
    /\ LET id == OptionInputs[so_step + 1]
           input_text == so_args[so_step + 1]
           selected == triple_click(inputs[id])
           value == fill(inputs[id], input_text)
       IN  /\ inputs' = [inputs EXCEPT ![id] = value]
           /\ option_log' = Append(option_log,
                  [call |-> "fill", selector |-> id, selected |-> selected,
                   value |-> value])
    /\ so_step' = so_step + 1
    /\ so_pc' = IF so_step' = Len(OptionInputs) THEN "save" ELSE "fill"
    /\ UNCHANGED <<so_args, submitted>>
    /\ UNCHANGED <<xp_vars, db_vars, fx_vars, sw_vars, lp_vars, pl_vars, rb_vars>>

\* self.page.click('input[value="Save Changes"]') and the wait for the page
\* that answers the post (lines 45-46)
ClickSaveChanges ==
    /\ so_pc = "save"
    /\ option_log' = Append(option_log,
           [call |-> "click", selector |-> SaveChanges, selected |-> <<>>,
            value |-> <<>>])
    /\ submitted' = inputs
    /\ so_pc' = "returned"
    /\ UNCHANGED <<so_step, so_args, inputs>>
    /\ UNCHANGED <<xp_vars, db_vars, fx_vars, sw_vars, lp_vars, pl_vars, rb_vars>>

\* A locator call that finds no element in time raises; set_options catches
\* nothing.
SetOptionsRaises ==
    /\ so_pc \in {"fill", "save"}
    /\ so_pc' = "raised"
    /\ UNCHANGED <<so_step, so_args, inputs, option_log, submitted>>
    /\ UNCHANGED <<xp_vars, db_vars, fx_vars, sw_vars, lp_vars, pl_vars, rb_vars>>

----------------------------------------------------------------------------
(* pytest and the two autouse fixtures of conftest.py: setup_wordpress     *)
(* (scope="session", line 83) and setup_database_fixtures (function scope, *)
(* line 351).  Before each test pytest sets up the fixtures of wider scope *)
(* first and runs a fixture again only when its scope has ended.           *)

\* @pytest.fixture(scope="session", autouse=True)
SetupWordpressScope_function == "function"
SetupWordpressScope == "session"

\* The value, or the exception, of a session fixture that has run is kept
\* for the whole session.
FixtureCached(scope, pc) == scope = "session" /\ pc \in {"returned", "raised"}

\* pytest starts the setup of the next test
PytestSetup ==
    /\ fx_pc = "setup"
    /\ IF FixtureCached(SetupWordpressScope, sw_pc)
       THEN /\ fx_pc' = IF sw_pc = "returned" THEN "fixture" ELSE "error"
            /\ UNCHANGED sw_vars
       ELSE /\ fx_pc' = "session"
            /\ sw_pc' = "start"
            /\ sw_exc' = NoExc
            /\ UNCHANGED <<page, context_open, goto_ok, welcome_check, sw_calls,
                           all_calls, login_caller, login_page, sw_runs>>
    /\ UNCHANGED <<fx_step, fx_calls, tests_run, prev_wrote, fx_runs, tests_called,
                   test_result, test_changed>>
    /\ UNCHANGED <<xp_vars, db_vars, ui_vars>>

\* setup_wordpress has ended: its locals are gone; pytest goes on to
\* setup_database_fixtures, or reports the error of the fixture
SetupWordpressDone ==
    /\ fx_pc = "session"
    /\ sw_pc \in {"returned", "raised"}
    /\ fx_pc' = IF sw_pc = "returned" THEN "fixture"
                ELSE IF sw_exc \in BaseExceptions THEN "aborted" ELSE "error"
    /\ page' = NoPage
    /\ goto_ok' = FALSE
    /\ welcome_check' = "unchecked"
    /\ sw_calls' = <<>>
    /\ all_calls' = <<>>
    /\ login_caller' = "setup_wordpress"
    /\ login_page' = NoLoginPage
    /\ UNCHANGED <<sw_pc, context_open, sw_exc, sw_runs>>
    /\ UNCHANGED <<fx_step, fx_calls, tests_run, prev_wrote, fx_runs, tests_called,
                   test_result, test_changed>>
    /\ UNCHANGED <<xp_vars, db_vars, ui_vars>>

----------------------------------------------------------------------------
(* Specifications *)

DbQuiet ==
    /\ db_pc = "idle"
    /\ db_op = "none"
    /\ db_path = <<>>
    /\ prog = <<>>
    /\ stmt_idx = 1
    /\ conn_open = FALSE
    /\ engine_live = FALSE
    /\ exc = NoExc
    /\ db_result = "none"
    /\ prev_result = "none"
    /\ block_exc = NoExc
    /\ raised_exc = NoExc
    /\ commit_calls = 0
    /\ rolled_back = FALSE
    /\ users_txn = wp_users
    /\ users_before = wp_users

XpQuiet ==
    /\ xp_pc = "ready"
    /\ text = <<>>
    /\ tag = <<"a">>
    /\ escaped = <<>>
    /\ click_calls = 0
    /\ clicks = <<>>

FxQuiet ==
    /\ fx_pc = "end"
    /\ fx_step = 0
    /\ fx_calls = <<>>
    /\ tests_run = 0
    /\ prev_wrote = FALSE
    /\ fx_runs = 0
    /\ tests_called = 0
    /\ test_result = "none"
    /\ test_changed = {}

SwQuiet ==
    /\ sw_pc = "idle"
    /\ page = NoPage
    /\ context_open = FALSE
    /\ goto_ok = FALSE
    /\ welcome_check = "unchecked"
    /\ sw_calls = <<>>
    /\ all_calls = <<>>
    /\ login_caller = "setup_wordpress"
    /\ login_page = NoLoginPage
    /\ sw_exc = NoExc
    /\ sw_runs = 0

LpQuiet ==
    /\ lp_pc = "idle"
    /\ url = <<>>
    /\ login_attempts = 0
    /\ login_calls = 0
    /\ tested_url = <<>>
    /\ loop_steps = 0

PlQuiet ==
    /\ plugins = [n \in PluginNames |-> "inactive"]
    /\ plugin_clicks = <<>>
    /\ plugin_waits = 0
    /\ activations = <<>>
    /\ plugins_before = plugins

RbQuiet ==
    /\ rb_pc = "idle"
    /\ now = 0
    /\ wait_started = 0
    /\ end_visible = FALSE
    /\ result_list = {}
    /\ rebuild_log = <<>>

SoQuiet ==
    /\ so_pc = "idle"
    /\ so_step = 0
    /\ so_args = <<>>
    /\ inputs = <<>>
    /\ option_log = <<>>
    /\ submitted = <<>>

UiQuiet == LpQuiet /\ PlQuiet /\ RbQuiet /\ SoQuiet

XpInit ==
    /\ xp_pc = "ready"
    /\ text \in Texts
    /\ tag \in Tags
    /\ escaped = <<>>
    /\ click_calls = 0
    /\ clicks = <<>>
    /\ wp_options = {}
    /\ txn = {}
    /\ before = {}
    /\ wp_users = NoUsersTable
    /\ DbQuiet
    /\ FxQuiet
    /\ SwQuiet
    /\ UiQuiet

XpNext == EscapeXpathString \/ ClickByText

SpecXPath == XpInit /\ [][XpNext]_vars

DbInit ==
    /\ wp_options \in InitialTables
    /\ txn = wp_options
    /\ before = wp_options
    /\ wp_users = UsersTable({AdminRow, TestUserRow(OtherPassword)})
    /\ DbQuiet
    /\ XpQuiet
    /\ FxQuiet
    /\ SwQuiet
    /\ UiQuiet

DbNext ==
    \/ CallClean \/ CallLoad \/ CallTestBlock \/ CallResetPassword \/ DbSteps

SpecDb == DbInit /\ [][DbNext]_vars

SwLocalsFresh ==
    /\ page = NoPage
    /\ context_open = FALSE
    /\ goto_ok = FALSE
    /\ welcome_check = "unchecked"
    /\ sw_calls = <<>>
    /\ all_calls = <<>>
    /\ login_caller = "setup_wordpress"
    /\ login_page = NoLoginPage
    /\ sw_exc = NoExc

\* setup_wordpress has run once and returned
SwReturned ==
    /\ sw_pc = "returned"
    /\ sw_runs = 1
    /\ SwLocalsFresh

SessionInit ==
    /\ wp_options \in SessionTables
    /\ txn = wp_options
    /\ before = wp_options
    /\ wp_users = UsersTable({AdminRow, TestUserRow(PASSWORD)})
    /\ DbQuiet
    /\ XpQuiet
    /\ fx_pc = "setup"
    /\ fx_step = 0
    /\ fx_calls = <<>>
    /\ tests_run = 0
    /\ prev_wrote = FALSE
    /\ fx_runs = 0
    /\ tests_called = 0
    /\ test_result = "none"
    /\ test_changed = {}
    /\ SwReturned
    /\ UiQuiet

SessionNext ==
    \/ PytestSetup \/ FxCall \/ FxRaise \/ FxReturn \/ TestBody \/ TestNotRun
    \/ DbSteps

SpecSession == SessionInit /\ [][SessionNext]_vars

SetupInit ==
    /\ sw_pc = "start"
    /\ sw_runs = 0
    /\ SwLocalsFresh
    /\ wp_options \in {{}, {Row("siteurl", "http://localhost/", "yes")}}
    /\ txn = wp_options
    /\ before = wp_options
    /\ wp_users \in SetupUsersTables
    /\ DbQuiet
    /\ XpQuiet
    /\ FxQuiet
    /\ UiQuiet

SetupNext ==
    \/ SwStart \/ SwEnsureDone \/ SwNewContext \/ DbSteps \/ SwGoto \/ SwScreenshot \/ SwLanguageChoose \/ SwLanguageSkip
    \/ SwWelcome \/ InitInstall \/ InitClickLogIn \/ InitCallLogin
    \/ InitActivatePlugin \/ LoginGoto \/ LoginSkip \/ LoginSubmit
    \/ SwRaise \/ SwFinally

SpecSetup == SetupInit /\ [][SetupNext]_vars

\* A pytest session: setup_wordpress, then for each test
\* setup_database_fixtures and the test function.
RunTables ==
    {{Row("siteurl", "http://localhost/", "yes"), Row(ActivePlugins, "a:0:{}", "yes")} \cup sp :
        sp \in {{}, {Row(n, PageValue(n), "no") : n \in StaticPressNames}}}

RunInit ==
    /\ wp_options \in RunTables
    /\ txn = wp_options
    /\ before = wp_options
    /\ wp_users \in InitialUsersTables
    /\ DbQuiet
    /\ XpQuiet
    /\ fx_pc = "setup"
    /\ fx_step = 0
    /\ fx_calls = <<>>
    /\ tests_run = 0
    /\ prev_wrote = FALSE
    /\ fx_runs = 0
    /\ tests_called = 0
    /\ test_result = "none"
    /\ test_changed = {}
    /\ sw_pc = "idle"
    /\ sw_runs = 0
    /\ SwLocalsFresh
    /\ UiQuiet

RunNext == PytestSetup \/ SetupWordpressDone \/ SetupNext \/ SessionNext

SpecRun == RunInit /\ [][RunNext]_vars

LoopInit ==
    /\ lp_pc = "assign"
    /\ url \in Urls
    /\ login_attempts = 0
    /\ login_calls = 0
    /\ tested_url = <<>>
    /\ loop_steps = 0
    /\ PlQuiet
    /\ RbQuiet
    /\ SoQuiet
    /\ wp_options = {}
    /\ txn = {}
    /\ before = {}
    /\ wp_users = NoUsersTable
    /\ DbQuiet
    /\ XpQuiet
    /\ FxQuiet
    /\ SwQuiet

LoopNext ==
    \/ LoopAssign \/ LoopIterate \/ LoopLeave \/ LoopFormHidden \/ LoopLogin
    \/ LoopLoginFails \/ LoopCheckAdmin \/ LoopGotoRaises

SpecLoop == LoopInit /\ [][LoopNext]_vars

PluginsInit ==
    /\ plugins \in [PluginNames -> PluginStates]
    /\ plugin_clicks = <<>>
    /\ plugin_waits = 0
    /\ activations = <<>>
    /\ plugins_before = plugins
    /\ LpQuiet
    /\ RbQuiet
    /\ SoQuiet
    /\ wp_options = {}
    /\ txn = {}
    /\ before = {}
    /\ wp_users = NoUsersTable
    /\ DbQuiet
    /\ XpQuiet
    /\ FxQuiet
    /\ SwQuiet

PluginsNext == CallActivatePlugin

SpecPlugins == PluginsInit /\ [][PluginsNext]_vars

RebuildInit ==
    /\ rb_pc = "click"
    /\ now = 0
    /\ wait_started = 0
    /\ end_visible = FALSE
    /\ result_list = {}
    /\ rebuild_log = <<>>
    /\ LpQuiet
    /\ PlQuiet
    /\ SoQuiet
    /\ wp_options = {}
    /\ txn = {}
    /\ before = {}
    /\ wp_users = NoUsersTable
    /\ DbQuiet
    /\ XpQuiet
    /\ FxQuiet
    /\ SwQuiet

RebuildNext ==
    \/ RebuildClick \/ RebuildEndSeen \/ RebuildEntrySeen \/ RebuildTimeout
    \/ RebuildTick \/ EndAppears \/ EntryAppears

SpecRebuild == RebuildInit /\ [][RebuildNext]_vars

OptionsInit ==
    /\ so_pc = "fill"
    /\ so_step = 0
    /\ so_args \in Arguments
    /\ inputs \in Forms
    /\ option_log = <<>>
    /\ submitted = <<>>
    /\ LpQuiet
    /\ PlQuiet
    /\ RbQuiet
    /\ wp_options = {}
    /\ txn = {}
    /\ before = {}
    /\ wp_users = NoUsersTable
    /\ DbQuiet
    /\ XpQuiet
    /\ FxQuiet
    /\ SwQuiet

OptionsNext == ClearAndType \/ ClickSaveChanges \/ SetOptionsRaises

SpecOptions == OptionsInit /\ [][OptionsNext]_vars

----------------------------------------------------------------------------
(* Claims about RoutineOperation, checked under SpecXPath *)

Count(s, c) == Cardinality({i \in 1..Len(s) : s[i] = c})

\* Character-by-character image of a text: a single quote becomes the nine
\* characters  ', "'", '  and every other character is copied.
RECURSIVE QuoteImage(_)
QuoteImage(t) ==
    IF t = <<>> THEN <<>>
    ELSE (IF Head(t) = SQ THEN <<SQ, ",", " ", DQ, SQ, DQ, ",", " ", SQ>> ELSE <<Head(t)>>)
         \o QuoteImage(Tail(t))

ExpectedEscape(t) ==
    <<"c", "o", "n", "c", "a", "t", "(", SQ>> \o QuoteImage(t) \o <<SQ, ",", " ", SQ, SQ, ")">>

\* C1 (as amended): escape_xpath_string(text) is exactly concat('<s>', '')
\* where <s> is text with every single quote replaced by the nine characters
\* ', "'", ' and every other character copied unchanged; the empty string
\* gives concat('', '').
C1_EscapeExact ==
    xp_pc = "escaped" =>
        /\ escaped = ExpectedEscape(text)
        /\ (text = <<>> =>
                escaped = <<"c", "o", "n", "c", "a", "t", "(", SQ, SQ, ",", " ", SQ, SQ, ")">>)

\* C1 as originally stated: the replacement of a single quote is seven
\* characters long, so the result has 14 + Len(text) + 6 * (number of single
\* quotes) characters.
C1_Original_SevenCharacters ==
    xp_pc = "escaped" =>
        /\ escaped = ExpectedEscape(text)
        /\ Len(escaped) = 14 + Len(text) + 6 * Count(text, SQ)

C1_Witness ==
    /\ xp_pc = "escaped"
    /\ Count(text, SQ) >= 2
    /\ Count(text, DQ) >= 1

\* XPath 1.0 grammar of a call  concat(Literal, Literal, ...)  where
\* Literal ::= '"' [^"]* '"' | "'" [^']* "'"  and white space may separate tokens.
XPathSpace == {" ", "\t", "\n"}
ParseFailure == <<[delim |-> "error", value |-> <<>>]>>

RECURSIVE SkipSpace(_)
SkipSpace(s) ==
    IF s # <<>> /\ Head(s) \in XPathSpace THEN SkipSpace(Tail(s)) ELSE s

\* Position of the first occurrence of c in s at or after position i; 0 if none.
RECURSIVE IndexFrom(_, _, _)
IndexFrom(s, c, i) ==
    IF i > Len(s) THEN 0
    ELSE IF s[i] = c THEN i ELSE IndexFrom(s, c, i + 1)

RECURSIVE ParseArguments(_, _)
ParseArguments(s0, acc) ==
    LET s == SkipSpace(s0)
    IN  IF s = <<>> \/ Head(s) \notin {SQ, DQ} THEN ParseFailure
        ELSE LET close == IndexFrom(s, Head(s), 2)
             IN  IF close = 0 THEN ParseFailure
                 ELSE LET lit  == [delim |-> Head(s), value |-> SubSeq(s, 2, close - 1)]
                          rest == SkipSpace(DropFirst(s, close))
                      IN  IF rest = <<>> THEN ParseFailure
                          ELSE IF Head(rest) = ","
                               THEN ParseArguments(Tail(rest), Append(acc, lit))
                          ELSE IF Head(rest) = ")" /\ SkipSpace(Tail(rest)) = <<>>
                               THEN Append(acc, lit)
                          ELSE ParseFailure

ParseConcat(s) ==
    IF Len(s) >= 7 /\ SubSeq(s, 1, 7) = <<"c", "o", "n", "c", "a", "t", "(">>
    THEN ParseArguments(DropFirst(s, 7), <<>>)
    ELSE ParseFailure

RECURSIVE JoinValues(_)
JoinValues(args) ==
    IF args = <<>> THEN <<>> ELSE Head(args).value \o JoinValues(Tail(args))

\* C2: the output of escape_xpath_string is one well-formed concat(...) call
\* of at least two string literals, no single-quote-delimited literal holds
\* a single quote, and the literals concatenated in order give back text.
C2_SafeRoundTrip ==
    xp_pc = "escaped" =>
        LET args == ParseConcat(escaped)
        IN  /\ args # ParseFailure
            /\ Len(args) >= 2
            /\ \A i \in 1..Len(args) :
                   /\ args[i].delim \in {SQ, DQ}
                   /\ Count(args[i].value, args[i].delim) = 0
            /\ JoinValues(args) = text

C2_Witness ==
    /\ xp_pc = "escaped"
    /\ Count(text, SQ) >= 1
    /\ Count(text, DQ) >= 1
    /\ Len(ParseConcat(escaped)) >= 4

\* C3: every click_by_text call builds the selector
\* xpath=.//<tag>[contains(text(), <escape_xpath_string(text)>)] and issues
\* exactly one click, on the first element matching it.
C3_ClickByText ==
    /\ Len(clicks) = click_calls
    /\ \A i \in 1..Len(clicks) :
           /\ clicks[i].selector =
                  <<"x", "p", "a", "t", "h", "=", ".", "/", "/">> \o tag
                  \o <<"[", "c", "o", "n", "t", "a", "i", "n", "s", "(", "t", "e", "x", "t", "(", ")", ",", " ">>
                  \o escape_xpath_string(text) \o <<")", "]">>
           /\ clicks[i].nth = "first"

C3_Witness ==
    /\ click_calls = 2
    /\ Len(clicks) = 2
    /\ Count(text, SQ) >= 1
    /\ tag = <<"l", "i">>

----------------------------------------------------------------------------
(* Claims about the database layer, checked under SpecDb *)

Finished(op) == db_pc = "done" /\ db_op = op
RECURSIVE ExecAll(_, _)
ExecAll(statements, table) ==
    IF statements = <<>> THEN table
    ELSE ExecAll(Tail(statements), Exec(Head(statements), table))

\* C4: after TableCleaner.clean() returns normally, from any prior table,
\* wp_options holds no row named 'StaticPress::static url',
\* 'StaticPress::static dir' or 'StaticPress::timeout'.
C4_CleanRemovesOptions ==
    (Finished("clean") /\ db_result = "returned") =>
        \A r \in wp_options :
            r.option_name \notin {"StaticPress::static url", "StaticPress::static dir",
                                  "StaticPress::timeout"}

C4_Witness ==
    /\ Finished("clean")
    /\ db_result = "returned"
    /\ \A n \in StaticPressNames : HasRow(before, n)
    /\ wp_options # before

\* C5: after FixtureLoader.load('./testlibraries/fixtures/WpOptionsStaticPress2019.yml')
\* returns normally, from any prior table, the row 'StaticPress::static url'
\* has option_value 'http://example.org/sub/' and the row
\* 'StaticPress::timeout' has option_value '20'.
C5_LoadStoresUrlAndTimeout ==
    (Finished("load") /\ db_path = FixturePath /\ db_result = "returned") =>
        /\ ValuesOf(wp_options, "StaticPress::static url") = {"http://example.org/sub/"}
        /\ ValuesOf(wp_options, "StaticPress::timeout") = {"20"}

C5_Witness ==
    /\ Finished("load")
    /\ db_path = FixturePath
    /\ db_result = "returned"
    /\ ValuesOf(before, StaticUrl) = {"http://example.com/sub/"}
    /\ ValuesOf(before, Timeout) = {}

\* C6: after FixtureLoader.load('./testlibraries/fixtures/WpOptionsStaticPress2019.yml')
\* returns normally, the row 'StaticPress::static dir' has option_value
\* '/var/www/web/static/' (the value test_database_layer.py expects).
C6_StaticDirAsTested ==
    (Finished("load") /\ db_path = FixturePath /\ db_result = "returned") =>
        ValuesOf(wp_options, "StaticPress::static dir") = {"/var/www/web/static/"}

\* C7: get_db_connection calls commit exactly when the with-block finishes
\* without an exception; when the block or the commit raises, the
\* transaction is rolled back, the same exception leaves get_db_connection
\* and the table is as it was before the block; uncommitted statements are
\* never in the table.
C7_CommitOrRollback ==
    /\ db_pc \in {"block", "commit", "except"} => wp_options = before
    /\ db_pc = "done" =>
          /\ (commit_calls = 1) <=> (block_exc = NoExc)
          /\ commit_calls <= 1
          /\ raised_exc # NoExc =>
                /\ db_result = "raised"
                /\ exc = raised_exc
                /\ IsException(raised_exc) => rolled_back
                /\ txn = before
                /\ wp_options = before
          /\ raised_exc = NoExc =>
                /\ db_result = "returned"
                /\ exc = NoExc
                /\ wp_options = ExecAll(prog, before)

C7_Witness ==
    /\ Finished("test")
    /\ db_result = "raised"
    /\ Len(prog) = 2
    /\ stmt_idx = 2
    /\ Exec(prog[1], before) # before
    /\ prog[2] = SelectMissing
    /\ rolled_back
    /\ wp_options = before

----------------------------------------------------------------------------
(* Claims about setup_database_fixtures, checked under SpecSession *)

\* C9: before every test function setup_database_fixtures has run
\* TableCleaner.clean and then FixtureLoader.load, in that order, so at the
\* start of every test, whatever a previous test wrote, the three
\* StaticPress options exist with the fixture values: static url
\* 'http://example.org/sub/', timeout '20' and the static dir value of the
\* loader.
C9_FixturesBeforeEveryTest ==
    fx_pc = "test" =>
        /\ Len(fx_calls) >= 2
        /\ fx_calls[1] = "clean"
        /\ fx_calls[2] = "load"
        /\ ValuesOf(wp_options, "StaticPress::static url") = {"http://example.org/sub/"}
        /\ ValuesOf(wp_options, "StaticPress::timeout") = {"20"}
        /\ ValuesOf(wp_options, "StaticPress::static dir") = {"/var/www/html/wp-content/staticpress/"}
        /\ \A n \in StaticPressNames :
               Cardinality({r \in wp_options : r.option_name = n}) = 1

\* The second test starts after the first test changed the options.
C9_Witness ==
    /\ fx_pc = "test"
    /\ tests_run = 1
    /\ prev_wrote
    /\ fx_calls = <<"clean", "load", "activate", "update_db_version">>

----------------------------------------------------------------------------
(* Claims about setup_wordpress, checked under SpecSetup *)

Ran(fn) == \E i \in 1..Len(all_calls) : all_calls[i][1] = fn

\* C10 as originally stated, its "never both" part: when page.goto
\* succeeded and setup_wordpress returns, _initialize_wordpress and
\* _login_wordpress have not both run.
C10_Original_NeverBoth ==
    (sw_pc = "returned" /\ goto_ok) =>
        ~(Ran("_initialize_wordpress") /\ Ran("_login_wordpress"))

\* C10 (as amended): once PageWelcome.is_displayed_now has been evaluated,
\* setup_wordpress itself has called exactly one of the two flows,
\* _initialize_wordpress when the welcome page is displayed and otherwise
\* _login_wordpress, never both and never neither; before that it has called
\* none.  _login_wordpress also runs inside _initialize_wordpress: a
\* setup_wordpress that returns on the welcome-page path has run both, one
\* on the other path has run _login_wordpress alone.
C10_ExactlyOneDirectCall ==
    /\ welcome_check = "unchecked" => (sw_calls = <<>> /\ all_calls = <<>>)
    /\ welcome_check = "displayed" => sw_calls = <<"_initialize_wordpress">>
    /\ welcome_check = "absent" =>
          /\ sw_calls = <<"_login_wordpress">>
          /\ all_calls = << <<"_login_wordpress", "setup_wordpress">> >>
    /\ sw_pc = "returned" =>
          /\ goto_ok
          /\ welcome_check # "unchecked"
          /\ welcome_check = "displayed" =>
                all_calls = << <<"_initialize_wordpress", "setup_wordpress">>,
                               <<"_login_wordpress", "_initialize_wordpress">> >>

C10_Witness ==
    /\ sw_pc = "returned"
    /\ welcome_check = "displayed"
    /\ sw_calls = <<"_initialize_wordpress">>
    /\ Ran("_login_wordpress")
    /\ click_calls = 1

----------------------------------------------------------------------------
(* Claims about a pytest session, checked under SpecRun *)

\* C11: in a test session setup_wordpress (session scope) runs exactly once
\* and has returned before setup_database_fixtures runs for the first time;
\* setup_database_fixtures runs once before each test function: a test
\* function is called only right after the run of the fixture made for it,
\* and no test gets a second run.
C11_SessionFixtureOnce ==
    /\ sw_runs <= 1
    /\ fx_runs > 0 => (sw_runs = 1 /\ sw_pc = "returned")
    /\ fx_pc \in {"fixture", "test"} => (sw_runs = 1 /\ sw_pc = "returned")
    /\ fx_runs <= tests_run + 1
    /\ tests_called <= tests_run
    /\ fx_pc = "test" =>
          /\ fx_runs = tests_run + 1
          /\ fx_calls = <<"clean", "load", "activate", "update_db_version">>
    /\ fx_pc \in {"setup", "end"} /\ sw_pc = "returned" => fx_runs = tests_run

C11_Witness ==
    /\ fx_pc = "test"
    /\ tests_called = 1
    /\ fx_runs = 2
    /\ sw_runs = 1
    /\ sw_pc = "returned"

----------------------------------------------------------------------------
(* Claims about the re-authentication loop, checked under SpecLoop *)

\* C12: the re-authentication loop of test_sets_option_and_rebuilds
\* terminates: it makes at most 3 iterations, hence at most 3 calls of
\* PageLogin.login and at most 10 steps; an iteration starts only when the
\* URL tested contains 'wp-login.php'; the loop is left for the menu
\* navigation when the URL tested does not contain 'wp-login.php', and
\* after 3 iterations also when it still does.
C12_LoopTerminates ==
    /\ login_attempts <= 3
    /\ login_calls <= login_attempts
    /\ loop_steps <= 3 * 3 + 1
    /\ lp_pc \in {"login", "check_admin"} => str_contains(tested_url, <<"wp-login.php">>)
    /\ lp_pc = "loop_head" /\ login_attempts > 0 => str_contains(tested_url, <<"wp-login.php">>)
    /\ lp_pc = "menu" =>
          /\ tested_url = url
          /\ ~str_contains(url, <<"wp-login.php">>) \/ login_attempts = 3
    /\ lp_pc = "raised" => ~str_contains(url, <<"wp-admin">>)

C12_Witness ==
    /\ lp_pc = "menu"
    /\ login_attempts = 3
    /\ login_calls = 3
    /\ str_contains(url, <<"wp-login.php">>)

----------------------------------------------------------------------------
(* Claims about PagePlugins.activate_plugin, checked under SpecPlugins *)

\* C13: a call of activate_plugin(name) that finds the plugin's 'Activate'
\* link clicks it once (and waits once) unless the click itself raises; a
\* call that finds no link (the plugin is active) makes no click and no
\* wait and leaves the page as it is; so a call right after a call that
\* activated the same plugin changes nothing.
C13_ActivateOnceIdempotent ==
    /\ \A i \in 1..Len(activations) :
          LET a == activations[i]
          IN  /\ a.links = 0 => (a.outcome = "skipped" /\ a.clicks = 0 /\ a.waits = 0)
              /\ a.links > 0 =>
                    /\ a.outcome # "skipped"
                    /\ a.clicks = IF a.outcome = "click_raised" THEN 0 ELSE 1
                    /\ a.waits = a.clicks
    /\ \A i \in 1..(Len(activations) - 1) :
          (activations[i].outcome = "activated"
              /\ activations[i + 1].name = activations[i].name) =>
          (activations[i + 1].outcome = "skipped" /\ activations[i + 1].clicks = 0)
    /\ activations # <<>> =>
          /\ activations[Len(activations)].outcome \in {"skipped", "not_activated", "click_raised"}
                => plugins = plugins_before
          /\ \A n \in PluginNames : plugins_before[n] = "active" => plugins[n] = "active"
    /\ \A i \in 1..Len(plugin_clicks) : plugin_clicks[i].nth = "first"

C13_Witness ==
    /\ Len(activations) = 2
    /\ activations[1].name = QuotedPlugin
    /\ activations[1].links = 1
    /\ activations[1].outcome = "activated"
    /\ activations[2].name = QuotedPlugin
    /\ activations[2].outcome = "skipped"
    /\ Len(plugin_clicks) = 1
    /\ plugin_waits = 1

----------------------------------------------------------------------------
(* Claims about PageStaticPress.click_rebuild, checked under SpecRebuild *)

Events == [i \in 1..Len(rebuild_log) |-> rebuild_log[i].event]

----------------------------------------------------------------------------
(* Claims about _ensure_test_user_password, checked under SpecSetup *)

\* C15: _ensure_test_user_password lets no database error out: when a
\* statement fails (wp_users does not exist, or any other error of execute
\* or commit) the database is left as it was, the function returns and
\* setup_wordpress goes on to open the browser context; with wp_users
\* missing the first SELECT fails, nothing else is executed, and the only
\* exception setup_wordpress can end with is one of the browser steps.
C15_EnsureNeverRaises ==
    /\ sw_exc \notin {"OperationalError", "ProgrammingError"}
    /\ sw_pc \notin {"start", "ensure", "raised"} =>
          (Finished("ensure") /\ sw_runs = 1)
    /\ (Finished("ensure") /\ raised_exc # NoExc) =>
          /\ wp_options = before
          /\ wp_users = users_before
    /\ (db_op = "ensure" /\ ~users_before.exists) =>
          /\ stmt_idx = 1
          /\ wp_options = before
          /\ wp_users = users_before
          /\ db_pc = "done" => raised_exc = "ProgrammingError"
          /\ sw_pc = "raised" => sw_exc = "Error"

C15_Witness ==
    /\ sw_pc = "new_context"
    /\ ~wp_users.exists
    /\ Finished("ensure")
    /\ raised_exc = "ProgrammingError"
    /\ db_result = "raised"
    /\ rolled_back

----------------------------------------------------------------------------
(* Further claims about the database layer, checked under SpecDb *)

\* C16: after reset_password.py has run to its end, wp_users has a row with
\* user_login 'test_user' and the user_pass of every such row is a hash of
\* PASSWORD.
C16_PasswordReset ==
    (Finished("reset_password") /\ db_result = "returned") =>
        /\ \E r \in wp_users.rows : r.user_login = "test_user"
        /\ \A r \in wp_users.rows :
              r.user_login = "test_user" => phpass_verify(r.user_pass, PASSWORD)

OtherRows(table) == {r \in table : r.option_name \notin StaticPressNames}

\* C17: during and after TableCleaner.clean(), however it ends, the rows of
\* wp_options whose option_name is not one of the three StaticPress names
\* are those that were there before the call, with the same values, in the
\* table and in the transaction; wp_users is as it was.
C17_CleanFrame ==
    db_op = "clean" =>
        /\ OtherRows(wp_options) = OtherRows(before)
        /\ OtherRows(txn) = OtherRows(before)
        /\ wp_users = users_before
        /\ users_txn = users_before

C17_Witness ==
    /\ Finished("clean")
    /\ db_result = "returned"
    /\ wp_options # before
    /\ wp_options = {Row("siteurl", "http://localhost/", "yes")}
    /\ Cardinality(wp_users.rows) = 2

\* C18: when a statement of TableCleaner.clean or FixtureLoader.load fails,
\* what the statements before it did is rolled back: once the call is over
\* wp_options is the table of before the call (the three StaticPress
\* options included), nothing is left in the transaction, and the exception
\* of the statement has left the call.
C18_AllOrNothing ==
    (db_op \in {"clean", "load"} /\ db_pc = "done" /\ block_exc # NoExc) =>
        /\ wp_options = before
        /\ txn = before
        /\ \A n \in StaticPressNames :
              {r \in wp_options : r.option_name = n} = {r \in before : r.option_name = n}
        /\ commit_calls = 0
        /\ db_result = "raised"
        /\ exc = block_exc

C18_Witness ==
    /\ Finished("load")
    /\ block_exc = "OperationalError"
    /\ stmt_idx = 3
    /\ before = {Row("siteurl", "http://localhost/", "yes")}
    /\ wp_options = before
    /\ rolled_back
    /\ db_result = "raised"

RowsNamed(table, n) == {r \in table : r.option_name = n}

\* C19: FixtureLoader.load with a matching path is an idempotent upsert:
\* after it returned, each of the three options has exactly one row, with
\* the fixture's option_value and autoload 'yes' whatever the row held
\* before, and loading again would leave wp_options as it is; whatever
\* calls were made, no option_name has two rows, in the table or in a
\* transaction.
C19_IdempotentUpsert ==
    /\ \A r \in wp_options : Cardinality(RowsNamed(wp_options, r.option_name)) = 1
    /\ \A r \in txn : Cardinality(RowsNamed(txn, r.option_name)) = 1
    /\ (Finished("load") /\ db_result = "returned"
            /\ db_path \in {FixturePath, UpperSnakePath}) =>
          /\ RowsNamed(wp_options, "StaticPress::static url") =
                {Row("StaticPress::static url", "http://example.org/sub/", "yes")}
          /\ RowsNamed(wp_options, "StaticPress::static dir") =
                {Row("StaticPress::static dir", "/var/www/html/wp-content/staticpress/", "yes")}
          /\ RowsNamed(wp_options, "StaticPress::timeout") =
                {Row("StaticPress::timeout", "20", "yes")}
          /\ ExecAll(LoadProgram(db_path), wp_options) = wp_options
          /\ OtherRows(wp_options) = OtherRows(before)

C19_Witness ==
    /\ Finished("load")
    /\ db_result = "returned"
    /\ db_path = UpperSnakePath
    /\ RowsNamed(before, StaticUrl) = {Row(StaticUrl, "http://example.com/sub/", "no")}
    /\ RowsNamed(before, StaticDir) = {}
    /\ RowsNamed(wp_options, StaticUrl) = {Row(StaticUrl, "http://example.org/sub/", "yes")}

----------------------------------------------------------------------------
(* Claims about failures in setup_database_fixtures, checked under SpecSession *)

\* C21: in setup_database_fixtures a call that raises ends the fixture with
\* that exception: the calls made are 'clean' alone when clean raised,
\* 'clean', 'load' when load raised (and so on), every call before the last
\* one returned, and the test function is called only after all four calls
\* returned.
C21_FailureAborts ==
    /\ fx_step = Len(fx_calls)
    /\ fx_calls = SubSeq(<<"clean", "load", "activate", "update_db_version">>, 1, Len(fx_calls))
    /\ fx_step >= 2 => prev_result = "returned"
    /\ (fx_pc = "fixture" /\ fx_step >= 1 /\ db_pc = "done" /\ db_result = "raised") =>
          exc = raised_exc /\ exc # NoExc
    /\ fx_pc \in {"error", "aborted"} =>
          /\ fx_step >= 1
          /\ Finished(fx_calls[fx_step])
          /\ db_result = "raised"
          /\ exc = raised_exc
          /\ exc # NoExc
          /\ tests_called <= tests_run
    /\ fx_pc = "test" =>
          /\ fx_calls = <<"clean", "load", "activate", "update_db_version">>
          /\ db_result = "returned"
          /\ tests_called <= tests_run

C21_Witness ==
    /\ fx_pc = "error"
    /\ fx_calls = <<"clean", "load">>
    /\ block_exc = "OperationalError"
    /\ stmt_idx = 2
    /\ wp_options = before

----------------------------------------------------------------------------
(* Claims about PageStaticPressOptions.set_options, checked under SpecOptions *)

\* C22: set_options fills the inputs static_url, static_dir, basic_usr,
\* basic_pwd, timeout in that order, every filled input holds exactly the
\* argument given for it, and 'Save Changes' is clicked at most once, only
\* after all five inputs were filled; a call that returns has clicked it
\* exactly once and has posted the five arguments.
C22_FillThenSave ==
    LET order == <<"static_url", "static_dir", "basic_usr", "basic_pwd", "timeout">>
        fills == SelectSeq(option_log, LAMBDA e : e.call = "fill")
        saves == SelectSeq(option_log, LAMBDA e : e.call = "click")
    IN  /\ Len(fills) = so_step
        /\ \A i \in 1..Len(fills) :
              /\ option_log[i] = fills[i]
              /\ fills[i].selector = order[i]
              /\ fills[i].value = so_args[i]
              /\ inputs[order[i]] = so_args[i]
        /\ Len(saves) <= 1
        /\ Len(saves) = 1 =>
              /\ Len(fills) = 5
              /\ option_log[6] = saves[1]
              /\ saves[1].selector = "input[value=\"Save Changes\"]"
              /\ \A i \in 1..5 : submitted[order[i]] = so_args[i]
        /\ so_pc = "returned" <=> Len(saves) = 1

C22_Witness ==
    /\ so_pc = "returned"
    /\ Len(option_log) = 6
    /\ \A i \in 1..5 : option_log[i].selected # <<>>
    /\ \A i \in {1, 2, 5} : so_args[i] # <<>> /\ so_args[i] # option_log[i].selected
    /\ submitted = inputs

----------------------------------------------------------------------------
(* Claims about test_sets_option_and_rebuilds, checked under SpecSession *)

\* C23: each of the three values the database assertions of
\* test_sets_option_and_rebuilds expect differs from the value
\* FixtureLoader.load stores for that option, the assertions do not hold on
\* the table the fixture leaves, and a test that passed has changed the rows
\* of all three options after the fixture ran.
C23_AssertionsNeedSavedPage ==
    LET expected == [n \in StaticPressNames |->
                        CASE n = "StaticPress::static url" -> "http://example.com/sub/"
                          [] n = "StaticPress::static dir" -> "/tmp/static/"
                          [] n = "StaticPress::timeout"    -> "10"]
        stored == LoadProgram(FixturePath)
    IN  /\ {stored[i].name : i \in 1..Len(stored)} = StaticPressNames
        /\ \A i \in 1..Len(stored) : stored[i].value # expected[stored[i].name]
        /\ fx_pc = "test" =>
              \A n \in StaticPressNames : expected[n] \notin ValuesOf(wp_options, n)
        /\ test_result = "passed" =>
              /\ test_changed = StaticPressNames
              /\ tests_called >= 1

\* A test has passed and the fixture of the next test has replaced the values
\* it saved.
C23_Witness ==
    /\ test_result = "passed"
    /\ tests_called = 1
    /\ fx_pc = "test"
    /\ \A n \in StaticPressNames : ValuesOf(wp_options, n) = {FixtureValue(n)}

=============================================================================
